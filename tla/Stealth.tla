------------------------------- MODULE Stealth -------------------------------
(***************************************************************************)
(* The stealth state of the MLOAD module.  Every custom feature of the     *)
(* cIOS asks it, through a software interrupt, whether a request may be    *)
(* served: a request of a game must look like a request to a plain IOS,    *)
(* and a few requests are reserved to the ES plugin.                       *)
(*                                                                         *)
(* The three variables are global to all IOS threads: they say nothing of  *)
(* who is asking.                                                          *)
(***************************************************************************)

VARIABLES
  running_title,  \* ES has verified the title that is running (swi.c)
  es_request,     \* ES is inside one of its own requests (swi.c)
  stealth_mode    \* stealth is enabled, the default (MLOAD ioctlv)

stealthVars == <<running_title, es_request, stealth_mode>>

StealthTypeOK ==
  /\ running_title \in BOOLEAN
  /\ es_request \in BOOLEAN
  /\ stealth_mode \in BOOLEAN

StealthInit ==
  /\ running_title = FALSE
  /\ es_request = FALSE
  /\ stealth_mode = TRUE

\* Swi_GetRunningTitle: custom commands are hidden.
GetRunningTitle == stealth_mode /\ running_title

\* Swi_GetEsRequest: commands reserved to ES are open.
GetEsRequest == ~stealth_mode \/ es_request

SetRunningTitle(b) ==
  /\ running_title' = b
  /\ UNCHANGED <<es_request, stealth_mode>>

SetEsRequest(b) ==
  /\ es_request' = b
  /\ UNCHANGED <<running_title, stealth_mode>>

\* MLOAD's ioctlv MLOAD_SET_STEALTH_MODE, which has no check of its own: only
\* the open of /dev/mload is refused while a title runs.
SetStealthMode(b) ==
  /\ stealth_mode' = b
  /\ UNCHANGED <<running_title, es_request>>

=============================================================================
