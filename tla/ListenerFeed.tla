------------------------------- MODULE ListenerFeed -------------------------------
(***************************************************************************)
(* What the listeners of a server are promised: a feed of the messages     *)
(* posted to the server, in the order of posting, without gaps and without *)
(* repetitions, starting with the oldest message not yet retired when the  *)
(* listener subscribed.  Messages are retired together, and only when      *)
(* every subscriber has them.  A subscriber is never forgotten: only       *)
(* leaving ends a subscription.                                            *)
(***************************************************************************)
EXTENDS Naturals, Sequences

CONSTANT Listeners

VARIABLES
  posted,      \* messages posted; they are numbered 1, 2, ...
  retired,     \* messages 1 .. retired will be sent to nobody any more
  present,     \* the clients there are
  subscribed,  \* those of them that listen
  feed         \* what each of them has been sent

feedVars == <<posted, retired, present, subscribed, feed>>

FeedInit ==
  /\ posted = 0
  /\ retired = 0
  /\ present = {}
  /\ subscribed = {}
  /\ feed = [l \in Listeners |-> <<>>]

\* The message l is to be sent next.
NextFor(l) ==
  IF feed[l] = <<>> THEN retired + 1 ELSE feed[l][Len(feed[l])] + 1

Post ==
  /\ posted' = posted + 1
  /\ UNCHANGED <<retired, present, subscribed, feed>>

Arrive(l) ==
  /\ l \notin present
  /\ present' = present \union {l}
  /\ UNCHANGED <<posted, retired, subscribed, feed>>

Subscribe(l) ==
  /\ l \in present \ subscribed
  /\ subscribed' = subscribed \union {l}
  /\ UNCHANGED <<posted, retired, present, feed>>

SendNext(l) ==
  /\ l \in subscribed
  /\ NextFor(l) <= posted
  /\ feed' = [feed EXCEPT ![l] = Append(@, NextFor(l))]
  /\ UNCHANGED <<posted, retired, present, subscribed>>

Leave(l) ==
  /\ l \in present
  /\ present' = present \ {l}
  /\ subscribed' = subscribed \ {l}
  /\ feed' = [feed EXCEPT ![l] = <<>>]
  /\ UNCHANGED <<posted, retired>>

Retire ==
  /\ \A l \in subscribed : NextFor(l) = posted + 1
  /\ retired' = posted
  /\ UNCHANGED <<posted, present, subscribed, feed>>

FeedNext ==
  \/ Post
  \/ Retire
  \/ \E l \in Listeners : Arrive(l) \/ Subscribe(l) \/ SendNext(l) \/ Leave(l)

FeedSpec == FeedInit /\ [][FeedNext]_feedVars
================================================================================
