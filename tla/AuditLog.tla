------------------------------ MODULE AuditLog ------------------------------
(***************************************************************************)
(* The audit log: infrastructure/logging/file-audit-logger.ts.             *)
(*                                                                         *)
(* The entries are kept in memory, newest first.  Each call of log() puts  *)
(* its entry in front and then persists the whole list: it writes          *)
(* audit.json.tmp and renames it to audit.json.  Requests call log() at    *)
(* any time and nothing serialises them; all of them use the same          *)
(* temporary name.  The list is read back once, when the backend starts.   *)
(*                                                                         *)
(* A file name stands for an inode, and a call writes to the inode it      *)
(* opened, whatever name that has by then.  The calls, their entries and   *)
(* the inodes they create are numbered in the order of the calls; inode 0  *)
(* is the audit.json of an earlier installation.                           *)
(***************************************************************************)
EXTENDS Naturals, Sequences

CONSTANTS
    MaxEntries,   \* maxEntries of the class
    MaxCalls,     \* bound on the calls of log()
    MaxTroubles   \* bound on failed system calls and restarts

ASSUME AuditAssumption ==
    /\ MaxEntries \in Nat \ {0}
    /\ MaxCalls \in Nat /\ MaxTroubles \in Nat

VARIABLES
    entries,    \* the list in memory: numbers of calls, newest first
    calls,      \* calls of log() so far
    pc,         \* where each call is
    json,       \* what each call writes: the list when it began to persist
    fd,         \* the inode each call writes to
    disk,       \* per inode: a list, and whether the file is that list
    tmp, audit, \* what the two names stand for
    alone,      \* history: calls that have had no other one beside them
    safe,       \* history: entries in a list that a call by itself put in
                \* place, since calls overlapped or a start could not read
    troubles

files == <<disk, tmp, audit>>
vars == <<entries, calls, pc, json, fd, files, alone, safe, troubles>>

Calls == 1..MaxCalls
Inodes == 0..MaxCalls
NoFile == MaxCalls + 1

UnderWay(k) == pc[k] \in {"open", "write", "rename"}

Broken == [list |-> <<>>, whole |-> FALSE]
Whole(s) == [list |-> s, whole |-> TRUE]

Elements(s) == {s[i] : i \in DOMAIN s}

Init ==
    /\ entries = <<>>
    /\ calls = 0
    /\ pc = [k \in Calls |-> "none"]
    /\ json = [k \in Calls |-> <<>>]
    /\ fd = [k \in Calls |-> NoFile]
    /\ disk = [i \in Inodes |-> Whole(<<>>)]
    /\ tmp = NoFile /\ audit \in {NoFile, 0}
    /\ alone = {}
    /\ safe = {}
    /\ troubles = 0

Trouble == /\ troubles < MaxTroubles
           /\ troubles' = troubles + 1

(* unshift(), and slice() when the list is too long.                       *)
Push(s, k) ==
    IF Len(s) < MaxEntries THEN <<k>> \o s
    ELSE <<k>> \o SubSeq(s, 1, MaxEntries - 1)

(* log() runs without a break up to the first await of persist(), which    *)
(* has made the text by then.                                              *)
Log ==
    LET k == calls + 1
        beside == \E c \in Calls : UnderWay(c)
    IN  /\ calls < MaxCalls
        /\ calls' = k
        /\ entries' = Push(entries, k)
        /\ json' = [json EXCEPT ![k] = Push(entries, k)]
        /\ pc' = [pc EXCEPT ![k] = "open"]
        /\ alone' = IF beside THEN {} ELSE {k}
        /\ safe' = IF beside THEN {} ELSE safe
        /\ UNCHANGED <<fd, files, troubles>>

\* Mutant: the log is written in its place.
OpenInPlace(k) ==
    LET i == IF audit # NoFile THEN audit ELSE k IN
    /\ pc[k] = "open"
    /\ tmp' = i
    /\ fd' = [fd EXCEPT ![k] = i]
    /\ disk' = [disk EXCEPT ![i] = Broken]
    /\ pc' = [pc EXCEPT ![k] = "write"]
    /\ UNCHANGED <<entries, calls, json, audit, alone, safe, troubles>>

(* writeFile() creates the temporary file, or empties the one that is      *)
(* there: of a call before it, or left over by one that failed.            *)
Open(k) ==
    LET i == IF tmp # NoFile THEN tmp ELSE k IN
    /\ pc[k] = "open"
    /\ tmp' = i
    /\ fd' = [fd EXCEPT ![k] = i]
    /\ disk' = [disk EXCEPT ![i] = Broken]
    /\ pc' = [pc EXCEPT ![k] = "write"]
    /\ UNCHANGED <<entries, calls, json, audit, alone, safe, troubles>>

(* Another call has opened the inode beside k.                             *)
Shared(k) == k \notin alone /\ \E c \in Calls \ {k} : fd[c] = fd[k]

(* The text goes to the inode.  What two calls write to one inode leaves   *)
(* the text of the later one, or that with the end of a longer one.        *)
Write(k) ==
    /\ pc[k] = "write"
    /\ \E whole \in {TRUE, ~Shared(k)} :
          disk' = [disk EXCEPT ![fd[k]] = [list |-> json[k], whole |-> whole]]
    /\ pc' = [pc EXCEPT ![k] = "rename"]
    /\ UNCHANGED <<entries, calls, json, fd, tmp, audit, alone, safe, troubles>>

(* rename() moves what has the temporary name by now.                      *)
Rename(k) ==
    /\ pc[k] = "rename" /\ tmp # NoFile
    /\ audit' = tmp /\ tmp' = NoFile
    /\ pc' = [pc EXCEPT ![k] = "done"]
    /\ safe' = IF k \in alone THEN safe \cup Elements(json[k]) ELSE safe
    /\ UNCHANGED <<entries, calls, json, fd, disk, alone, troubles>>

(* Another call has moved it.  The error is logged and forgotten.          *)
RenameMissing(k) ==
    /\ pc[k] = "rename" /\ tmp = NoFile
    /\ pc' = [pc EXCEPT ![k] = "done"]
    /\ UNCHANGED <<entries, calls, json, fd, files, alone, safe, troubles>>

(* A system call fails, a write after it wrote a part.                     *)
PersistFails(k) ==
    /\ UnderWay(k)
    /\ Trouble
    /\ disk' = IF pc[k] = "write" THEN [disk EXCEPT ![fd[k]] = Broken] ELSE disk
    /\ pc' = [pc EXCEPT ![k] = "done"]
    /\ UNCHANGED <<entries, calls, json, fd, tmp, audit, alone, safe>>

(* The process ends, a new one runs initialize() before anything else: a   *)
(* log that is not there, does not parse or cannot be read is an empty one.*)
Restart ==
    /\ Trouble
    /\ pc' = [k \in Calls |-> IF UnderWay(k) THEN "done" ELSE pc[k]]
    /\ \/ /\ entries' = IF audit # NoFile /\ disk[audit].whole
                        THEN disk[audit].list ELSE <<>>
          /\ UNCHANGED safe
       \/ entries' = <<>> /\ safe' = {}
    /\ alone' = {}
    /\ UNCHANGED <<calls, json, fd, files>>

PersistStep(k) ==
    Open(k) \/ Write(k) \/ Rename(k) \/ RenameMissing(k) \/ PersistFails(k)

Next ==
    \/ Log
    \/ \E k \in Calls : PersistStep(k)
    \/ Restart

Spec == Init /\ [][Next]_vars

-----------------------------------------------------------------------------
Lists == {s \in Seq(Calls) : Len(s) <= MaxEntries}

(* The variables hold values of the shapes the code gives them, and no     *)
(* list is longer than maxEntries.                                         *)
TypeOK ==
    /\ entries \in Lists
    /\ calls \in 0..MaxCalls
    /\ pc \in [Calls -> {"none", "open", "write", "rename", "done"}]
    /\ json \in [Calls -> Lists]
    /\ fd \in [Calls -> Inodes \cup {NoFile}]
    /\ disk \in [Inodes -> [list : Lists, whole : BOOLEAN]]
    /\ tmp \in Inodes \cup {NoFile} /\ audit \in Inodes \cup {NoFile}
    /\ alone \subseteq Calls /\ safe \subseteq Calls
    /\ troubles \in 0..MaxTroubles

(* A list has e, or as many newer entries as it may have.                  *)
Covers(s, e) ==
    \/ e \in Elements(s)
    \/ Len(s) = MaxEntries /\ \A f \in Elements(s) : f > e

(* What a call by itself has put in place is on disk from then on, in a    *)
(* file that parses, whatever system call fails and wherever the process   *)
(* ends; newer entries alone push it out.                                  *)
Durable ==
    \A e \in safe : /\ audit # NoFile /\ disk[audit].whole
                    /\ Covers(disk[audit].list, e)
=============================================================================
