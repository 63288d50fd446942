----------------------------- MODULE MCSettles -----------------------------
(***************************************************************************)
(* CrawlJob, with a provider that may never end its crawl, and              *)
(* WebhookDelivery for TLC, to see that runs and deliveries come to an end. *)
(* The two share no state here: a behaviour is of one of them, as part      *)
(* says, and the other has nothing to do.                                   *)
(***************************************************************************)
EXTENDS CrawlJob

CONSTANTS Callers, First, Workers, Attempts, DeliveryFaults

VARIABLES part, config, delivery, caller, job, worker, answered, tries, lost

deliveryVars == <<config, delivery, caller, job, worker, answered, tries, lost>>

Delivery == INSTANCE WebhookDelivery
               WITH run <- worker, Runs <- Workers, MaxStalled <- 0, Faults <- DeliveryFaults

-----------------------------------------------------------------------------
IdleJob ==
    /\ mode = CHOOSE m \in Modes : TRUE
    /\ row = NewRow /\ sent = {} /\ skipped = {}
    /\ queue = [state |-> "removed", attempts |-> 0, stalls |-> 0]
    /\ run = [r \in RunId |-> IdleRun] /\ client = [c \in Clients |-> IdleClient]

IdleDelivery ==
    /\ config = TRUE
    /\ delivery = [exists |-> FALSE, status |-> "PENDING", attempt |-> 1]
    /\ caller = [c \in Callers |-> [pc |-> "done", op |-> "redeliver"]]
    /\ job = [c \in Callers |-> [state |-> "none", attemptsMade |-> 0, stalled |-> 0]]
    /\ worker = [r \in Workers |-> Delivery!IdleRun]
    /\ answered = FALSE /\ lost = FALSE /\ tries = [c \in Callers |-> 0]

SettlesInit ==
    \/ part = "job" /\ Init /\ IdleDelivery
    \/ part = "delivery" /\ IdleJob /\ Delivery!Init

SettlesNext ==
    \/ part = "job" /\ Next /\ UNCHANGED deliveryVars
    \/ part = "delivery" /\ Delivery!Next /\ UNCHANGED vars

\* The fairness of the part that has nothing to do asks for nothing.
SettlesSpec ==
    /\ SettlesInit /\ [][SettlesNext /\ UNCHANGED part]_<<part, vars, deliveryVars>>
    /\ Fairness /\ Delivery!Fairness

-----------------------------------------------------------------------------
(* Properties *)

\* A delivery does not stay PENDING, unless what was to settle it is lost.
DeliverySettles == Delivery!DeliverySettles
=============================================================================
