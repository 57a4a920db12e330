---------------------------- MODULE SessionState ----------------------------
(***************************************************************************)
(* What every thread of the v4 session shares: the lifecycle flag of       *)
(* system_state.h and the name service.  The name service is QNX's, not    *)
(* the repository's: it is modelled as the source uses it.                 *)
(***************************************************************************)
EXTENDS ZonalConfig

CONSTANT AttachMayFail      \* names whose name_attach may return NULL

VARIABLES
    g_keep_running,         \* volatile int g_keep_running
    names                   \* name service: where each session name stands

Central == NUM_ZONES        \* the name adas_central_fusion_<pid>
NameIds == Zones \cup {Central}

sessionVars == <<g_keep_running, names>>

SessionTypeOK ==
    /\ g_keep_running \in BOOLEAN
    /\ names \in [NameIds -> {"absent", "attached", "detached"}]

SessionInit ==
    /\ g_keep_running = TRUE
    /\ names = [n \in NameIds |-> "absent"]

\* The channel behind a name takes messages from name_attach to name_detach.
Attached(n) == names[n] = "attached"

name_attach(n) == names' = [names EXCEPT ![n] = "attached"]
name_detach(n) == names' = [names EXCEPT ![n] = "detached"]

\* handle_shutdown, on whichever thread the signal interrupts.
handle_shutdown == g_keep_running' = FALSE
=============================================================================
