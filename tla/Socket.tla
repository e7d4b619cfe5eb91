------------------------------- MODULE Socket -------------------------------
(***************************************************************************)
(* The Socket Mode deployment.  One goroutine reads the events of the      *)
(* connection, acknowledges each to Slack and runs the handler on it       *)
(* before it takes the next, so there is one worker.  Slack sends an       *)
(* event again when its acknowledgement did not arrive.                    *)
(***************************************************************************)
EXTENDS Serial, Sequences

CONSTANT MaxQueue  \* bound on the events that wait

ASSUME OneWorker == \E w \in Workers : Workers = {w}
ASSUME QueueAssumption == MaxQueue \in Nat \ {0}

VARIABLE queue     \* events Slack has for the process, first to last

socketVars == <<store, board, linear, saved, closed, pc, req, sess, queue>>

SocketInit == Init /\ queue = << >>

\* A user runs the command or clicks a button.
Press ==
  /\ Len(queue) < MaxQueue
  /\ \E r \in Request : Sendable(r) /\ queue' = Append(queue, r)
  /\ UNCHANGED vars

\* loop and dispatch: acknowledge the first event, then run the handler on it
\* whether or not the acknowledgement went through.
Dispatch(w) ==
  /\ queue # << >>
  /\ Begin(w, Head(queue))
  /\ \E reply \in Replies("ack") :
       queue' = IF reply = "failed" THEN Append(Tail(queue), Head(queue))
                ELSE Tail(queue)

\* The handler runs to its end without looking at the events.
Handle(w) == HandlerStep(w) /\ UNCHANGED queue

\* The process dies and starts again.  The request being handled had been
\* acknowledged and is lost; the events that wait are sent again, or expire.
Restart(w) ==
  /\ "crash" \in Faulty
  /\ IF Idle(w) THEN UNCHANGED vars ELSE Crash(w)
  /\ queue' \in {queue, << >>}

SocketNext ==
  \/ Press
  \/ \E w \in Workers : Dispatch(w) \/ Handle(w) \/ Restart(w)

\* The loop takes the next event when it is free, and the handler goes on but
\* for its calls of Slack, which may hang.  Users need not press anything.
SocketFairness ==
  \A w \in Workers :
    WF_socketVars(Dispatch(w)) /\ WF_socketVars(Prompt(w) /\ UNCHANGED queue)

SocketSpec == SocketInit /\ [][SocketNext]_socketVars /\ SocketFairness

----------------------------------------------------------------------------
\* A cancellation that was pressed ends the open round of its issue, whatever
\* events wait before it: the loop comes to every event, unless a call of
\* Slack that does not return holds it up for ever (loop, dispatch).
CancelEnds ==
  \A i \in Issues :
    (\E n \in DOMAIN queue : queue[n].act = "cancel" /\ queue[n].issue = i)
      ~> (~Open(i) \/ [](\E w \in Workers : AwaitsSlack(w)))

\* "Estimate p saved to Linear."
SaysSaved(c, p) ==
  board[c] # NoCard /\ board[c].kind = "final" /\ board[c].point = p

\* An estimate on its way to Linear ends its round even if Slack hangs, and
\* its card names it for good unless the update of the card never returns
\* (finalize: the session is deleted before Slack is asked).
SetEnds ==
  \A w \in Workers, c \in Cards, p \in Points :
    (pc[w] = "estimate" /\ sess[w].ts = c /\ req[w].point = p)
      ~> /\ c \in closed
         /\ \/ []SaysSaved(c, p)
            \/ [](pc[w] = "close")

----------------------------------------------------------------------------
\* Every event was sent by a user.
QueuePicked ==
  queue \in Seq(Request) /\ \A n \in DOMAIN queue : Picked(queue[n])
=============================================================================
