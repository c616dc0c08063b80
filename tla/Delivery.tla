------------------------------- MODULE Delivery -------------------------------
(***************************************************************************)
(* What the consumer loops really promise about one stream, whatever the   *)
(* replicas, crashes and failed Redis calls: entries are taken in stream   *)
(* order, each at most once, and each ends at most once, in one of three   *)
(* ways that are final.  Nothing promises that an entry ends "done": a     *)
(* lost entry is never taken again.                                        *)
(***************************************************************************)
EXTENDS Naturals

CONSTANT Entries       \* positions of the stream, numbers

VARIABLE status

Final == {"done", "rejected", "lost"}
Status == {"absent", "queued", "taken"} \cup Final

Init == status = [i \in Entries |-> "absent"]

(* A producer appends the next entry. *)
Put(i) ==
  /\ status[i] = "absent"
  /\ \A j \in Entries : j < i => status[j] # "absent"
  /\ status' = [status EXCEPT ![i] = "queued"]

(* The queued entries up to k go to one consumer, or to nobody. *)
Take(k) ==
  \E fate \in {"taken", "lost"} :
    status' = [i \in Entries |->
                 IF i <= k /\ status[i] = "queued" THEN fate ELSE status[i]]

(* Some taken entries end, each in a way of its own. *)
Finish ==
  /\ status' \in [Entries -> Status]
  /\ \A i \in Entries :
       status'[i] = status[i] \/ (status[i] = "taken" /\ status'[i] \in Final)

Next == (\E i \in Entries : Put(i) \/ Take(i)) \/ Finish

Spec == Init /\ [][Next]_status
=============================================================================
