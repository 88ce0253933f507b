---------------------------- MODULE SessionPromise ----------------------------
(***************************************************************************)
(* What OmegaSshSession promises an application (qt/omegasshsession.h,     *)
(* include/omegassh.h), with no thread, queue or wake in it: the far end's *)
(* output arrives in order; the session ends once, by itself only when the *)
(* connection is over and everything it carried has been delivered, or     *)
(* when it is told to; and an end always comes.                            *)
(***************************************************************************)
EXTENDS Naturals, Sequences

VARIABLES
  sent,        (* chunks the far end has put on the connection             *)
  hungUp,      (* the connection failed to come up, or is over             *)
  told,        (* terminate or the destructor was called                   *)
  delivered,   (* chunks the application has received                      *)
  over         (* finished was emitted, or the object is gone              *)

promiseVars == <<sent, hungUp, told, delivered, over>>

Init == sent = 0 /\ hungUp = FALSE /\ told = FALSE /\ delivered = <<>> /\ over = FALSE

FarSends == /\ ~hungUp
            /\ sent' = sent + 1
            /\ UNCHANGED <<hungUp, told, delivered, over>>

HangsUp == /\ ~hungUp
           /\ hungUp' = TRUE
           /\ UNCHANGED <<sent, told, delivered, over>>

Tell == /\ ~told /\ ~over
        /\ told' = TRUE
        /\ UNCHANGED <<sent, hungUp, delivered, over>>

(* One dataReceived: the next chunks, in the order they were sent.         *)
Deliver == /\ ~over
           /\ \E n \in (Len(delivered) + 1)..sent :
                delivered' = [i \in 1..n |-> i]
           /\ UNCHANGED <<sent, hungUp, told, over>>

EndsByItself == /\ hungUp /\ Len(delivered) = sent /\ ~over
                /\ over' = TRUE
                /\ UNCHANGED <<sent, hungUp, told, delivered>>

EndsAsTold == /\ told /\ ~over
              /\ over' = TRUE
              /\ UNCHANGED <<sent, hungUp, told, delivered>>

Next == FarSends \/ HangsUp \/ Tell \/ Deliver \/ EndsByItself \/ EndsAsTold

Safety == Init /\ [][Next]_promiseVars

(* The far end owes nothing; the session owes every delivery and every end.*)
Promise == /\ Safety
           /\ WF_promiseVars(Deliver)
           /\ WF_promiseVars(EndsByItself) /\ WF_promiseVars(EndsAsTold)
=============================================================================
