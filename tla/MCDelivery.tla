----------------------------- MODULE MCDelivery ------------------------------
(* Small instances, for the model checker, of whatever sends: the API's jobs, *)
(* the clients of the other languages and of the browser, and the process     *)
(* itself.  One of them runs in a behaviour; the others keep still.  Two jobs *)
(* meet only in what destination syncs share: a second sync goes with those.   *)
EXTENDS NodeClient, ServerSdks, Tracker, Delivery, ApiProcess

CONSTANTS r1, r2, h1

VARIABLE part

\* An item: its receiver, whether a consent gates it and whether it calls anybody.
Item2(to, gated, calls) == [to |-> to, gated |-> gated, calls |-> calls]
ItemsOf ==
  [destination  |-> <<Item2(r1, TRUE, TRUE), Item2(r2, TRUE, TRUE)>>,
   scenario     |-> <<Item2(r1, TRUE, TRUE), Item2(r2, FALSE, FALSE), Item2(r2, TRUE, TRUE)>>,
   webhook      |-> <<Item2(r1, FALSE, TRUE)>>,
   warehouse    |-> <<Item2(r1, FALSE, TRUE), Item2(r2, FALSE, TRUE)>>,
   inbound      |-> <<Item2(r1, FALSE, TRUE), Item2(r2, FALSE, TRUE)>>,
   notification |-> <<Item2(r1, FALSE, TRUE), Item2(r2, TRUE, TRUE), Item2(r1, FALSE, FALSE)>>]
Second == [kind |-> "destination", items |-> <<Item2(r1, TRUE, TRUE)>>]
MCJobs == {[kind |-> k, items |-> ItemsOf[k]] : k \in Kinds} \cup {Second}

MCRetryOptions == {-1, 1}

\* The Node client of another part is closed, for its timer would go on.
ClosedClient ==
  /\ retryLimit \in RetryLimits
  /\ tracked = 0 /\ acked = 0 /\ unposted = 0 /\ buffer = <<>> /\ loop = NoLoop /\ open = FALSE
  /\ waiting = [c \in Callers |-> Returned]

MCInit ==
  /\ part \in Kinds \cup {"node", "sdks", "tracker", "process"}
  /\ Init \/ ClosedClient
  /\ (part = "node") <=> open
  /\ ServerSdksInit /\ TrackerInit /\ DeliveryInit /\ ProcessInit
  /\ part = "node" \/ retryLimit = 1
  /\ part = "sdks" \/ (lang = "go" /\ maxRetries = 1)
  /\ part = "tracker" \/ remembers

MCNext ==
  /\ UNCHANGED part
  /\ \/ part = "node" /\ Next /\ UNCHANGED <<sdkVars, trackerVars, deliveryVars, processVars>>
     \/ part = "sdks" /\ ServerSdksNext /\ UNCHANGED <<vars, trackerVars, deliveryVars, processVars>>
     \/ part = "tracker" /\ TrackerNext /\ UNCHANGED <<vars, sdkVars, deliveryVars, processVars>>
     \/ part = "process" /\ ProcessNext /\ UNCHANGED <<vars, sdkVars, trackerVars, deliveryVars>>
     \/ /\ part \in Kinds /\ DeliveryNext
        /\ \A h \in Handlers :
             work'[h] # NoJob =>
               /\ work'[h].kind = part
               /\ IF h = h1 THEN work'[h].items = ItemsOf[part]
                           ELSE part = "destination" /\ work'[h].items = Second.items
        /\ UNCHANGED <<vars, sdkVars, trackerVars, processVars>>

MCVars == <<part, vars, sdkVars, trackerVars, deliveryVars, processVars>>

\* Each part under the fairness of its own module: nothing of it is enabled where
\* a part keeps still.
MCSpec ==
  MCInit /\ [][MCNext]_MCVars /\ Fairness /\ DeliveryFairness /\ ProcessFairness
=============================================================================
