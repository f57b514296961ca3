---------------------------- MODULE MCPanelHost ----------------------------
(* Small instances of the panel's host.                                    *)
EXTENDS PanelHost

\* The third release is for the head of the first: an update to it from the
\* second is refused.
Schemas == <<1, 2, 1>>
Both == {"sqlite", "postgresql"}
Postgres == {"postgresql"}
=============================================================================
