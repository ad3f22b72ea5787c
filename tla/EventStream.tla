----------------------------- MODULE EventStream -----------------------------
(***************************************************************************)
(* A browser that follows the events of one operation (operations.go,      *)
(* Subscribe).  The handler copies what is there under the manager's lock, *)
(* writes it outside the lock, and is woken through a channel that holds   *)
(* one token; the channel is closed when the operation finishes.  What of  *)
(* the history is still there to be copied is OperationJournal's matter.   *)
(***************************************************************************)
EXTENDS Absence, Integers

CONSTANT MaxStreamed    \* bound: events appended

VARIABLES
    appended,       \* sequence of the newest event
    ended,          \* the newest event when the operation finished, None before
    stream,         \* the handler, None when nobody is connected
    received,       \* Last-Event-ID of the browser
    complete            \* the browser got replay-complete: it does not come back

streamVars == <<appended, ended, stream, received, complete>>

(* copied: the newest event it has copied; token and closed: its channel;  *)
(* last: the marker follows what is copied.                                *)
Stream == [copied: 0..MaxStreamed, token: BOOLEAN, closed: BOOLEAN, last: BOOLEAN]

ASSUME StreamConstants == MaxStreamed \in Nat /\ None \notin Nat \cup Stream

AllSent == stream # None /\ received = stream.copied

-----------------------------------------------------------------------------
(* The handler.                                                            *)

(* Subscribe: of a finished operation there is only the replay.  A client  *)
(* that was given the marker does not reconnect.                           *)
Subscribe ==
    /\ stream = None /\ ~complete
    /\ stream' = [copied |-> appended, token |-> FALSE, closed |-> ended # None,
                  last |-> ended # None]
    /\ UNCHANGED <<appended, ended, received, complete>>

(* writeEvents, one frame.                                                 *)
WriteEvent ==
    /\ stream # None /\ received < stream.copied
    /\ received' = received + 1
    /\ UNCHANGED <<appended, ended, stream, complete>>

(* The next token is taken, and the events since the last one are copied.  *)
Woken ==
    /\ AllSent /\ ~stream.last /\ stream.token
    /\ stream' = [stream EXCEPT !.copied = appended, !.token = FALSE]
    /\ UNCHANGED <<appended, ended, received, complete>>

(* The closed channel: the rest is copied, and the marker follows it.      *)
Released ==
    /\ AllSent /\ ~stream.last /\ ~stream.token /\ stream.closed
    /\ stream' = [stream EXCEPT !.copied = appended, !.last = TRUE]
    /\ UNCHANGED <<appended, ended, received, complete>>

Complete ==
    /\ AllSent /\ stream.last
    /\ stream' = None /\ complete' = TRUE
    /\ UNCHANGED <<appended, ended, received>>

(* A failed write, a revoked principal, or the browser went away.          *)
Drop ==
    /\ stream # None /\ stream' = None
    /\ UNCHANGED <<appended, ended, received, complete>>

-----------------------------------------------------------------------------
(* The operation.                                                          *)

(* The token is dropped when one is waiting.                               *)
Wakes(s) == IF s = None \/ s.closed THEN s ELSE [s EXCEPT !.token = TRUE]
Closes(s) == IF s = None THEN s ELSE [s EXCEPT !.closed = TRUE]

(* appendEventLocked; reconciliation appends to a finished operation too.  *)
AppendOne ==
    /\ appended < MaxStreamed
    /\ appended' = appended + 1
    /\ stream' = Wakes(stream)
    /\ UNCHANGED <<ended, received, complete>>

(* finish: the terminal event, unless it cannot be written, and then the   *)
(* subscribers are released.                                               *)
FinishStream ==
    /\ ended = None
    /\ \/ /\ appended < MaxStreamed /\ appended' = appended + 1
          /\ stream' = Closes(Wakes(stream))
       \/ stream' = Closes(stream) /\ UNCHANGED appended
    /\ ended' = appended'
    /\ UNCHANGED <<received, complete>>

StreamInit ==
    /\ appended = 0 /\ ended = None /\ stream = None /\ received = 0 /\ complete = FALSE

StreamNext ==
    \/ Subscribe \/ WriteEvent \/ Woken \/ Released \/ Complete \/ Drop
    \/ AppendOne \/ FinishStream

StreamSpec == StreamInit /\ [][StreamNext]_streamVars

-----------------------------------------------------------------------------
(* Properties                                                              *)

StreamTypeOK ==
    /\ appended \in 0..MaxStreamed /\ ended \in 0..MaxStreamed \cup {None}
    /\ stream \in Stream \cup {None}
    /\ received \in 0..MaxStreamed /\ complete \in BOOLEAN

(* A handler that waits with nothing in its channel has copied everything: *)
(* no event is appended between its copy and its subscription, and none is *)
(* hidden by a token it has taken already (Subscribe, appendEventLocked).  *)
NoWakeupLost ==
    stream # None /\ ~stream.token /\ ~stream.closed => stream.copied = appended

(* "the retained replay is complete, so say so" (handleOperationEvents):   *)
(* who is complete so has every event up to the one the operation ended with.  *)
CompleteIsWhole == complete => ended # None /\ received >= ended
=============================================================================
