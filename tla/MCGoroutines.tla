---------------------------- MODULE MCGoroutines ----------------------------
(***************************************************************************)
(* Two parts whose goroutines wait for one another with locks held, for    *)
(* TLC: channels and their subscribers (PubSub), and the caches that evict *)
(* keys when the memory is used up (Eviction).  They share no state; in a  *)
(* behaviour one of them moves, and the other stays as it started.         *)
(***************************************************************************)
EXTENDS PubSub, MCEviction

CONSTANTS news, glob

VARIABLE part   \* the part that moves

(* A channel and a pattern that matches it.                                *)
mcName == {news, glob}
mcMatches == {<<news, news>>, <<glob, glob>>, <<glob, news>>}
(* SUBSCRIBE news, SUBSCRIBE glob news, PSUBSCRIBE glob.                   *)
mcRequests == {<<<<news>>, FALSE>>, <<<<glob, news>>, FALSE>>, <<<<glob>>, TRUE>>}

mcVars == <<pubSubVars, evictionVars, part>>

mcInit ==
    /\ PubSubInit /\ EvictionInit
    /\ part \in {"pubsub", "eviction"}
    /\ part # "eviction" => config = CHOOSE c \in Configs : TRUE

mcNext ==
    /\ \/ part = "pubsub" /\ PubSubNext /\ UNCHANGED evictionVars
       \/ part = "eviction" /\ EvictionNext /\ UNCHANGED pubSubVars
    /\ UNCHANGED part

(* The part that does not move owes nothing: no step that it would have to *)
(* take is enabled in its initial state.                                   *)
mcSpec == mcInit /\ [][mcNext]_mcVars /\ PubSubFairness /\ EvictionFairness
=============================================================================
