------------------------------ MODULE QueryPath ------------------------------
(***************************************************************************)
(* A query from the gateway to its answer: the rate limiter, the intent    *)
(* (query-understander, with its cache, its two attempts at the model and  *)
(* its fallback), the two searches of the dual-retriever with their timer, *)
(* the expander and the serializer.  The understander and the retriever    *)
(* are processes of their own: they go on when the gateway has given up.   *)
(* What the expander computes is SubgraphExpansion's subject.              *)
(***************************************************************************)
EXTENDS RateLimiter

CONSTANTS
  Followed,   \* the queries that are followed past the limiter
  Searches,   \* what a question may give to search with: sets of Sources
  NoIntent

Sources == {"vector", "graph"}

ASSUME QueryAssumption == Followed \subseteq Callers /\ Searches \subseteq SUBSET Sources

(* What is known of a question: where its intent comes from and which      *)
(* searches it has something to search for.                                *)
Intents == [model : BOOLEAN, searches : Searches]

VARIABLES
  gate,      \* query -> the service the gateway waits for, or how it ended
  task,      \* query -> where the understander's handler is
  intent,    \* query -> what that handler returns
  cache,     \* the entry of the question in Redis, or NoIntent
  search,    \* query -> source -> where the goroutine is and what it sent
  wait,      \* query -> "idle" | "waiting" | "timed out" | "returned"
  got,       \* query -> the sources whose nodes Retrieve has taken
  arrived    \* history: those that were in their channel while it waited

understandVars == <<task, intent, cache>>
retrieveVars == <<search, wait, got, arrived>>
queryVars == <<gate, understandVars, retrieveVars>>
vars == <<limiterVars, queryVars>>

Init ==
  /\ LimiterInit
  /\ gate = [q \in Followed |-> "understander"]
  /\ task = [q \in Followed |-> "idle"] /\ intent = [q \in Followed |-> NoIntent]
  /\ cache \in {NoIntent} \cup {i \in Intents : i.model}
  /\ search = [q \in Followed |-> [s \in Sources |-> "off"]]
  /\ wait = [q \in Followed |-> "idle"]
  /\ got = [q \in Followed |-> {}] /\ arrived = [q \in Followed |-> {}]

Limiting == LimiterNext /\ UNCHANGED queryVars

-----------------------------------------------------------------------------
(* The understander.                                                       *)

(* The request arrives, maybe after the gateway has given it up. *)
Understand(q) ==
  /\ call[q] = "allowed" /\ gate[q] \in {"understander", "failed"} /\ task[q] = "idle"
  /\ task' = [task EXCEPT ![q] = "get"]
  /\ UNCHANGED <<gate, intent, cache>>

(* Redis refuses the connection or drops it: the handler raises.  The      *)
(* client has no timeout: while Redis is silent the handler waits.         *)
RedisFails(q) ==
  /\ task[q] \in {"get", "set"}
  /\ task' = [task EXCEPT ![q] = "raised"]
  /\ UNCHANGED <<gate, intent, cache>>

CacheGet(q) ==
  /\ task[q] = "get"
  /\ IF cache # NoIntent
     THEN /\ intent' = [intent EXCEPT ![q] = cache]
          /\ task' = [task EXCEPT ![q] = "done"]
     ELSE /\ task' = [task EXCEPT ![q] = "ask"]
          /\ UNCHANGED intent
  /\ UNCHANGED <<gate, cache>>

(* The model's answer parses; it may leave nothing to embed or to match. *)
Parsed(q) ==
  /\ task[q] \in {"ask", "ask again"}
  /\ \E i \in Intents : i.model /\ intent' = [intent EXCEPT ![q] = i]
  /\ task' = [task EXCEPT ![q] = "set"]
  /\ UNCHANGED <<gate, cache>>

(* An attempt yields nothing; after the second the keywords of the         *)
(* question, if it has any, make do, and are not cached.                   *)
NextAttempt(q) ==
  \/ /\ task[q] = "ask"
     /\ task' = [task EXCEPT ![q] = "ask again"]
     /\ UNCHANGED intent
  \/ /\ task[q] = "ask again"
     /\ \E i \in Intents : /\ ~i.model /\ "vector" \in i.searches
                           /\ intent' = [intent EXCEPT ![q] = i]
     /\ task' = [task EXCEPT ![q] = "done"]

(* The model answers something else, or an error. *)
Unparsed(q) == NextAttempt(q) /\ UNCHANGED <<gate, cache>>

(* The model does not answer.  The gateway's 30 s began before the         *)
(* attempt's 30 s did, so it no longer waits.                              *)
AttemptTimesOut(q) ==
  /\ gate[q] # "understander"
  /\ NextAttempt(q) /\ UNCHANGED <<gate, cache>>

CacheSet(q) ==
  /\ task[q] = "set"
  /\ cache' = intent[q]
  /\ task' = [task EXCEPT ![q] = "done"]
  /\ UNCHANGED <<gate, intent>>

(* Queries that are not followed ask the same; the entry expires.  It      *)
(* matters to those that have yet to look.                                 *)
CacheByOthers ==
  /\ \E q \in Followed : task[q] \in {"idle", "get"}
  /\ cache' \in {NoIntent} \cup {i \in Intents : i.model}
  /\ cache' # cache /\ (cache' = NoIntent \/ cache = NoIntent)
  /\ UNCHANGED <<gate, task, intent>>

(* The client's timeout of the whole exchange, or no connection at all. *)
GiveUp(q) ==
  /\ call[q] = "allowed" /\ gate[q] = "understander"
  /\ gate' = [gate EXCEPT ![q] = "failed"]
  /\ UNCHANGED understandVars

Understood(q) ==
  /\ gate[q] = "understander" /\ task[q] \in {"done", "raised"}
  /\ gate' = [gate EXCEPT ![q] = IF task[q] = "done" THEN "retriever" ELSE "failed"]
  /\ UNCHANGED understandVars

UnderstanderStep(q) ==
  \/ Understand(q) \/ RedisFails(q) \/ CacheGet(q) \/ Parsed(q) \/ Unparsed(q)
  \/ AttemptTimesOut(q) \/ CacheSet(q) \/ GiveUp(q) \/ Understood(q)

-----------------------------------------------------------------------------
(* The retriever.                                                          *)

Expected(q) == {s \in Sources : search[q][s] # "off"}
Collected(q) == {s \in Sources : search[q][s] = "received"}

Retrieve(q) ==
  /\ gate[q] = "retriever" /\ wait[q] = "idle"
  /\ search' = [search EXCEPT ![q] =
                  [s \in Sources |-> IF s \in intent[q].searches THEN "running" ELSE "off"]]
  /\ wait' = [wait EXCEPT ![q] = "waiting"]
  /\ UNCHANGED <<gate, got, arrived>>

(* A search ends and sends to its channel, which has room for it. *)
SearchEnds(q, s) ==
  /\ search[q][s] = "running"
  /\ \E r \in {"nodes", "none"} :
       /\ search' = [search EXCEPT ![q][s] = r]
       /\ arrived' = [arrived EXCEPT ![q] =
                        IF r = "nodes" /\ wait[q] = "waiting" THEN @ \cup {s} ELSE @]
  /\ UNCHANGED <<gate, wait, got>>

(* The context of the call is cancelled once the gateway has its answer or *)
(* has lost the connection; embedder, Qdrant and Neo4j calls carry it.     *)
Cancelled(q) == gate[q] # "retriever"

(* Mutant of SearchCancelled: a channel without room blocks a search       *)
(* nobody waits for any more.                                              *)
SearchBlocked(q, s) ==
  /\ search[q][s] = "running" /\ Cancelled(q) /\ wait[q] = "waiting"
  /\ search' = [search EXCEPT ![q][s] = "none"]
  /\ UNCHANGED <<gate, wait, got, arrived>>

SearchCancelled(q, s) ==
  /\ search[q][s] = "running" /\ Cancelled(q)
  /\ search' = [search EXCEPT ![q][s] = "none"]
  /\ UNCHANGED <<gate, wait, got, arrived>>

Take(q, S) ==
  /\ got' = [got EXCEPT ![q] = @ \cup {s \in S : search[q][s] = "nodes"}]
  /\ search' = [search EXCEPT ![q] =
                  [s \in Sources |-> IF s \in S THEN "received" ELSE @[s]]]

Receive(q, s) ==
  /\ wait[q] = "waiting" /\ search[q][s] \in {"nodes", "none"}
  /\ Take(q, {s})
  /\ UNCHANGED <<gate, wait, arrived>>

(* The select may take the timer although a result is there. *)
TimesOut(q) ==
  /\ wait[q] = "waiting" /\ Collected(q) # Expected(q)
  /\ wait' = [wait EXCEPT ![q] = "timed out"]
  /\ UNCHANGED <<gate, search, got, arrived>>

(* The lists are fused and returned; the gateway may no longer be there. *)
Return(q) ==
  /\ wait' = [wait EXCEPT ![q] = "returned"]
  /\ gate' = [gate EXCEPT ![q] = IF @ = "retriever" THEN "expander" ELSE @]

ReturnAll(q) ==
  /\ wait[q] = "waiting" /\ Collected(q) = Expected(q)
  /\ Return(q)
  /\ UNCHANGED <<search, got, arrived>>

(* Mutant of ReturnPartial: what is in the channels is not looked at. *)
ReturnUndrained(q) ==
  /\ wait[q] = "timed out"
  /\ Return(q)
  /\ UNCHANGED <<search, got, arrived>>

(* The drain of both channels after the timeout. *)
ReturnPartial(q) ==
  /\ wait[q] = "timed out"
  /\ Take(q, {s \in Sources : search[q][s] \in {"nodes", "none"}})
  /\ Return(q)
  /\ UNCHANGED arrived

RetrieverStep(q) ==
  \/ Retrieve(q) \/ TimesOut(q) \/ ReturnAll(q) \/ ReturnPartial(q)
  \/ \E s \in Sources : SearchEnds(q, s) \/ SearchCancelled(q, s) \/ Receive(q, s)

-----------------------------------------------------------------------------
(* The rest of the gateway's handler.                                      *)

NextService == [expander |-> "serializer", serializer |-> "answered"]

Proceed(q) ==
  /\ gate[q] \in DOMAIN NextService
  /\ gate' = [gate EXCEPT ![q] = NextService[@]]

(* A call fails, with an error of the service or of the connection. *)
CallFails(q) ==
  /\ gate[q] \in {"retriever"} \cup DOMAIN NextService
  /\ gate' = [gate EXCEPT ![q] = "failed"]

Next ==
  \/ Limiting
  \/ /\ UNCHANGED <<limiterVars, retrieveVars>>
     /\ \/ CacheByOthers
        \/ \E q \in Followed : UnderstanderStep(q)
  \/ /\ UNCHANGED <<limiterVars, understandVars>>
     /\ \E q \in Followed : RetrieverStep(q)
  \/ /\ UNCHANGED <<limiterVars, understandVars, retrieveVars>>
     /\ \E q \in Followed : Proceed(q) \/ CallFails(q)

(* What the processes do of themselves: handlers go on, timers fire, a     *)
(* cancelled call returns.  Nothing makes Redis, the model or a search     *)
(* answer; the expander and the serializer are taken to answer or fail.    *)
Fairness ==
  \A q \in Followed :
    /\ WF_vars((ReadClock(q) \/ Store(q) \/ Allow(q)) /\ UNCHANGED queryVars)
    /\ WF_vars(AttemptTimesOut(q) /\ UNCHANGED <<limiterVars, retrieveVars>>)
    /\ WF_vars((GiveUp(q) \/ Understood(q)) /\ UNCHANGED <<limiterVars, retrieveVars>>)
    /\ WF_vars((Retrieve(q) \/ TimesOut(q) \/ ReturnAll(q) \/ ReturnPartial(q))
                 /\ UNCHANGED <<limiterVars, understandVars>>)
    /\ \A s \in Sources :
         WF_vars(SearchCancelled(q, s) /\ UNCHANGED <<limiterVars, understandVars>>)
    /\ WF_vars(Proceed(q) /\ UNCHANGED <<limiterVars, understandVars, retrieveVars>>)

Spec == Init /\ [][Next]_vars /\ Fairness

-----------------------------------------------------------------------------
(* What a search had delivered before Retrieve stopped waiting is in what  *)
(* it returns, even when the select took the timer although the result was *)
(* there ("collect whatever results are available", the retriever's        *)
(* design): an answer lacks a source only when that source was late,       *)
(* failed or found nothing.                                                *)
ArrivedIsReturned == \A q \in Followed : wait[q] = "returned" => arrived[q] \subseteq got[q]

(* Whatever Redis, the model, the embedder and the stores do, even         *)
(* nothing, every query gets an answer or an error, and its searches and   *)
(* its call of the retriever end: none is left waiting to hand over what   *)
(* nobody reads any more.  The understander's handler ends too, but where  *)
(* it waits for Redis: it asks without a timeout, and stays for as long as *)
(* Redis is silent, the gateway having gone on after its 30 s.             *)
AwaitsRedis(q) == task[q] \in {"get", "set"}

EverythingEnds ==
  \A q \in Followed :
    <>[] /\ \/ call[q] = "refused"
            \/ gate[q] \in {"answered", "failed"}
         /\ task[q] \in {"idle", "done", "raised"} \/ AwaitsRedis(q)
         /\ wait[q] \in {"idle", "returned"}
         /\ \A s \in Sources : search[q][s] # "running"
=============================================================================
