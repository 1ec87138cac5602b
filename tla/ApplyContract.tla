--------------------------- MODULE ApplyContract ---------------------------
(***************************************************************************)
(* What POST /api/config/apply promises, without its steps: the            *)
(* configuration moves from one complete set of files to the next, and the *)
(* answer says which.                                                      *)
(***************************************************************************)
EXTENDS YamlDoc

CONSTANTS Applies, Files, SavedFiles, Requests, NoDoc

VARIABLES
    cfg,      \* the files in effect
    asked,    \* the request body of each apply
    outcome   \* the answer to each apply

vars == <<cfg, asked, outcome>>

\* What the request makes of a file it names.  A file that holds nothing is not
\* written, although the answer may say 'applied'.
Requested(r, f) ==
    IF f \in SavedFiles /\ r[f] # NoDoc /\ cfg[f] # Blank
    THEN Saved(cfg[f], r[f]) ELSE cfg[f]

Init ==
    /\ cfg \in [Files -> Contents]
    /\ asked = [a \in Applies |-> [f \in Files |-> NoDoc]]
    /\ outcome = [a \in Applies |-> "none"]

Ask(a, r) ==
    /\ outcome[a] = "none"
    /\ asked' = [asked EXCEPT ![a] = r]
    /\ UNCHANGED <<cfg, outcome>>

Settle(a, answers) ==
    /\ outcome[a] = "none"
    /\ \E o \in answers : outcome' = [outcome EXCEPT ![a] = o]
    /\ UNCHANGED asked

\* 'applied': every requested file that could be loaded is in effect, merged
\* over what was there.
Applied(a) ==
    /\ Settle(a, {"applied"})
    /\ cfg' = [f \in Files |-> Requested(asked[a], f)]

\* 'rolledback': nothing changed, but a file that did not exist may stay.
RolledBack(a) ==
    /\ Settle(a, {"rolledback"})
    /\ \A f \in Files : cfg'[f] # cfg[f] => cfg[f] = NoFile
    /\ cfg' \in [Files -> Contents]

\* 'busy', a required file that holds nothing, or a failed backup: nothing
\* changed.
Refused(a) ==
    /\ Settle(a, {"busy", "error"})
    /\ UNCHANGED cfg

\* A failed rollback or a crash: each file is old, requested, or cut off.
Broken(a) ==
    /\ Settle(a, {"error", "lost"})
    /\ \A f \in Files : cfg'[f] \in {cfg[f], Requested(asked[a], f), Blank, Torn}
    /\ cfg' \in [Files -> Contents]

Next ==
    \E a \in Applies :
        \/ \E r \in Requests : Ask(a, r)
        \/ Applied(a) \/ RolledBack(a) \/ Refused(a) \/ Broken(a)

Spec == Init /\ [][Next]_vars
=============================================================================
