-------------------------------- MODULE Relay --------------------------------
(***************************************************************************)
(* The relay of a CONNECT session: handleConnect after its reply, and its  *)
(* two proxyCopy goroutines (internal/socks5/server.go), between the       *)
(* client's connection and the upstream one.                               *)
(*                                                                         *)
(* Each direction is four counters of chunks.  The handler returns when    *)
(* the first copy ends and closes both connections; a connection closed    *)
(* with data in it that were not read is reset, and what it still had to   *)
(* deliver may be lost.                                                    *)
(***************************************************************************)
EXTENDS Naturals

CONSTANTS
    MaxChunks,  \* chunks sent in each direction
    Capacity    \* chunks that fit into the buffers between two programs

VARIABLES
    sent,       \* sent[d]: chunks the sender of d has sent
    read,       \* those its copy has read
    passed,     \* those its copy has written
    got,        \* those the receiver has read
    fin,        \* directions whose sender sends no more
    broken,     \* directions whose sender reset the connection
    copy,       \* copy[d]: "runs", or how it ended
    first,      \* history: the directions that had ended when the session was closed
    session,    \* "open", "closed"
    lost        \* directions that deliver nothing more

peers == <<sent, got, fin, broken>>
copies == <<read, passed, copy>>
vars == <<peers, copies, first, session, lost>>

Directions == {"up", "down"}
Other(d) == IF d = "up" THEN "down" ELSE "up"

(* Every variable has its type; a copy holds at most one chunk. *)
TypeOK ==
    /\ {sent, read, passed, got} \subseteq [Directions -> 0..MaxChunks]
    /\ \A d \in Directions :
          /\ got[d] <= passed[d] /\ passed[d] <= read[d] /\ read[d] <= sent[d]
          /\ read[d] <= passed[d] + 1
    /\ {fin, broken, first, lost} \subseteq SUBSET Directions
    /\ copy \in [Directions -> {"runs", "eof", "error"}]
    /\ session \in {"open", "closed"}

Init ==
    /\ sent = [d \in Directions |-> 0] /\ read = sent /\ passed = sent /\ got = sent
    /\ fin = {} /\ broken = {} /\ lost = {} /\ first = {}
    /\ copy = [d \in Directions |-> "runs"] /\ session = "open"
-----------------------------------------------------------------------------
(* The client and the upstream peer *)

Send(d) ==
    /\ d \notin fin \cup broken /\ session = "open"
    /\ sent[d] < MaxChunks /\ sent[d] < read[d] + Capacity
    /\ sent' = [sent EXCEPT ![d] = @ + 1]
    /\ UNCHANGED <<got, fin, broken, copies, first, session, lost>>

Finish(d) ==
    /\ d \notin fin
    /\ fin' = fin \cup {d}
    /\ UNCHANGED <<sent, got, broken, copies, first, session, lost>>

Receive(d) ==
    /\ got[d] < passed[d] /\ d \notin lost
    /\ got' = [got EXCEPT ![d] = @ + 1]
    /\ UNCHANGED <<sent, fin, broken, copies, first, session, lost>>

(* The sender of d is gone: nothing of d is left to read, and it receives no
   more. *)
Break(d) ==
    /\ d \notin broken
    /\ broken' = broken \cup {d} /\ lost' = lost \cup {Other(d)}
    /\ UNCHANGED <<sent, got, fin, copies, first, session>>
-----------------------------------------------------------------------------
(* proxyCopy: io.Copy in the direction d *)

CopyRead(d) ==
    /\ copy[d] = "runs" /\ session = "open" /\ d \notin broken
    /\ read[d] = passed[d] /\ read[d] < sent[d]
    /\ read' = [read EXCEPT ![d] = @ + 1]
    /\ UNCHANGED <<peers, passed, copy, first, session, lost>>

CopyWrite(d) ==
    /\ copy[d] = "runs" /\ session = "open" /\ Other(d) \notin broken
    /\ passed[d] < read[d] /\ passed[d] < got[d] + Capacity
    /\ passed' = [passed EXCEPT ![d] = @ + 1]
    /\ UNCHANGED <<peers, read, copy, first, session, lost>>

(* Mutation: the copy ends as soon as the sender has finished. *)
CopyEOFEarly(d) ==
    /\ copy[d] = "runs" /\ d \in fin /\ d \notin broken
    /\ read[d] = passed[d]
    /\ copy' = [copy EXCEPT ![d] = "eof"]
    /\ UNCHANGED <<peers, read, passed, first, session, lost>>

(* All that was sent has been read and written. *)
CopyEOF(d) ==
    /\ copy[d] = "runs" /\ d \in fin /\ d \notin broken
    /\ read[d] = passed[d] /\ read[d] = sent[d]
    /\ copy' = [copy EXCEPT ![d] = "eof"]
    /\ UNCHANGED <<peers, read, passed, first, session, lost>>

(* A read or a write fails: the connection was closed or reset. *)
CopyFails(d) ==
    /\ copy[d] = "runs"
    /\ \/ session = "closed"
       \/ d \in broken /\ read[d] = passed[d]
       \/ Other(d) \in broken /\ passed[d] < read[d]
    /\ copy' = [copy EXCEPT ![d] = "error"]
    /\ UNCHANGED <<peers, read, passed, first, session, lost>>

(* The connection that d writes to still has unread data of the other direction. *)
Unread(d) == read[Other(d)] < sent[Other(d)]

(* Mutation: the handler waits for both copies. *)
CloseAfterBoth ==
    /\ session = "open"
    /\ \A d \in Directions : copy[d] # "runs"
    /\ session' = "closed"
    /\ first' = Directions
    /\ lost' = lost \cup {d \in Directions : Unread(d)}
    /\ UNCHANGED <<peers, copies>>

(* handleConnect: <-copyDone, then the deferred calls of Close. *)
Close ==
    /\ session = "open"
    /\ \E d \in Directions : copy[d] # "runs"
    /\ session' = "closed"
    /\ first' = {d \in Directions : copy[d] # "runs"}
    /\ lost' = lost \cup {d \in Directions : Unread(d)}
    /\ UNCHANGED <<peers, copies>>
-----------------------------------------------------------------------------
CopyStep(d) == CopyRead(d) \/ CopyWrite(d) \/ CopyEOF(d) \/ CopyFails(d)

Next ==
    \/ \E d \in Directions : Send(d) \/ Finish(d) \/ Receive(d) \/ Break(d)
    \/ \E d \in Directions : CopyStep(d)
    \/ Close

Spec == Init /\ [][Next]_vars

(* The goroutines run; nobody has to send, to read, to finish or to break. *)
FairSpec ==
    /\ Spec
    /\ WF_vars(Close)
    /\ \A d \in Directions : WF_vars(CopyStep(d))
-----------------------------------------------------------------------------
(* Chunks are missing in a direction only if the other one ended first, or a
   peer reset its connection: the direction whose end closed the session was
   handed over whole, although both connections are closed at once. *)
LossExplained ==
    session = "closed" =>
        \A d \in Directions :
            passed[d] < sent[d] => Other(d) \in first \/ d \in broken \/ Other(d) \in broken

(* The receiver of d does not read: a copy that writes to it waits. *)
Full(d) == passed[d] = got[d] + Capacity

(* A transfer in one direction arrives whole: once its sender has finished,
   all of it is there to be read, although both connections are closed, if
   the receiver sends nothing, stays, and reads. *)
OneWayArrives ==
    \A d \in Directions :
        d \in fin ~> \/ passed[d] = sent[d] /\ d \notin lost
                     \/ Full(d) \/ sent[Other(d)] > 0 \/ Other(d) \in fin \/ broken # {}

(* A peer that has finished, or is gone, ends the session unless someone does
   not read what was written to it: no session is left with one end open. *)
SessionCloses == fin \cup broken # {} ~> session = "closed" \/ \E d \in Directions : Full(d)
=============================================================================
