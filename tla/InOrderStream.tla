--------------------------- MODULE InOrderStream ----------------------------
(***************************************************************************)
(* What the receiving end of a striped stream promises its reader: chunks  *)
(* come out once each and in the order in which they were written, without *)
(* a hole as long as the stream is open; what closeStream flushes while it *)
(* closes the stream may skip chunks, but is never out of order and never  *)
(* repeated.  Nothing is promised of what comes out once the stream has    *)
(* been closed under the hands of DispatchLoop, except that it comes after *)
(* what had been delivered.  Chunks are numbered from 0 in the order of    *)
(* Stream.Write.                                                           *)
(***************************************************************************)
EXTENDS Integers, Sequences, SequencesExt

CONSTANT NumChunks   \* chunks the writer writes at most

VARIABLES
    out,   \* what the reader was given
    end    \* "open", "ended" or "torn"

Init == out = <<>> /\ end = "open"

\* One or more chunks become readable, consecutively.
Deliver ==
    /\ end = "open"
    /\ \E k \in 1..(NumChunks - Len(out)) :
          out' = out \o [i \in 1..k |-> Len(out) + i - 1]
    /\ UNCHANGED end

\* The stream ends; some of the chunks beyond a hole may still be handed over.
Finish ==
    /\ end = "open"
    /\ end' = "ended"
    /\ IsPrefix(out, out')
    /\ \A i \in DOMAIN out' \ DOMAIN out :
         /\ out'[i] \in Len(out)..(NumChunks - 1)
         /\ \A j \in DOMAIN out' : i < j => out'[i] < out'[j]

\* The stream is closed while a frame is being dispatched.
Tear ==
    /\ end \in {"open", "torn"}
    /\ end' = "torn"
    /\ IsPrefix(out, out')

Next == Deliver \/ Finish \/ Tear

Spec == Init /\ [][Next]_<<out, end>>
=============================================================================
