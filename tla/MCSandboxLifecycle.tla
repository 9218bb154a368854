------------------------- MODULE MCSandboxLifecycle -------------------------
(* A small instance of SandboxLifecycle: three sandboxes, two callers.     *)
EXTENDS SandboxLifecycle

MCIds == 1..3
MCTargets == {2}
MCCallers == {"p", "q"}
=============================================================================
