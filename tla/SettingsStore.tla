--------------------------- MODULE SettingsStore ---------------------------
(***************************************************************************)
(* What a board promises about the settings a user makes: a setting that   *)
(* is changed is what the next restart brings back.  Settings in Volatile  *)
(* may also move without being kept (a show that plays by itself).  mem is *)
(* what the program uses, kept is what a restart would load.               *)
(***************************************************************************)
CONSTANTS Key,        \* the settings
          Volatile    \* those that may move without being kept

VARIABLES mem, kept

vars == <<mem, kept>>

Init == mem = kept

\* Any number of settings change at once; each one that does is kept, and
\* nothing is kept that is not in use.
Set ==
  \A k \in Key :
    /\ mem'[k] # mem[k] => kept'[k] = mem'[k] \/ k \in Volatile
    /\ kept'[k] # kept[k] => kept'[k] = mem'[k]

Restart == mem' = kept /\ kept' = kept

Next == Set \/ Restart

Spec == Init /\ [][Next]_vars
=============================================================================
