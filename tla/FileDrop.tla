------------------------------ MODULE FileDrop ------------------------------
(***************************************************************************)
(* What the upload manager promises, without threads, buffers or disk      *)
(* calls: uploads are opened one at a time under identifiers that are      *)
(* never used again, an open upload is published at most once, as a whole  *)
(* and under a name nobody uses, and it may be discarded at any time.      *)
(***************************************************************************)
EXTENDS Integers

CONSTANTS MaxUploads, MaxNames

VARIABLES
    current,   \* the open upload, 0 when there is none
    last,      \* the last identifier handed out
    files      \* per name: 0 free, -1 not ours, i the content of upload i

vars == <<current, last, files>>

Init == /\ current = 0
        /\ last = 0
        /\ files = [n \in 1..MaxNames |-> 0]

Open == /\ current = 0 /\ last < MaxUploads
        /\ last' = last + 1
        /\ current' = last + 1
        /\ UNCHANGED files

Publish == /\ current # 0
           /\ \A n \in 1..MaxNames : files[n] # current
           /\ \E n \in 1..MaxNames :
                 /\ files[n] = 0
                 /\ files' = [files EXCEPT ![n] = current]
           /\ UNCHANGED <<current, last>>

Discard == /\ current # 0
           /\ current' = 0
           /\ UNCHANGED <<last, files>>

(* A file of another process appears in the destination.                   *)
Appear == /\ \E n \in 1..MaxNames : files[n] = 0 /\ files' = [files EXCEPT ![n] = -1]
          /\ UNCHANGED <<current, last>>

Next == Open \/ Publish \/ Discard \/ Appear

Spec == Init /\ [][Next]_vars
=============================================================================
