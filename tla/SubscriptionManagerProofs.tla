--------------------- MODULE SubscriptionManagerProofs ----------------------
(***************************************************************************)
(* The bookkeeping invariants of the subscription manager, for any number  *)
(* of sockets, queries, collections and channels, and from them that the   *)
(* manager implements the publish/subscribe service PubSub.                *)
(***************************************************************************)
EXTENDS SubscriptionManager, FiniteSetTheorems, SequenceTheorems, TLAPS

\* The four invariants support one another: a counter that equals its list says nothing of a
\* later removal unless the list is known to hold what the handlers remember.
IInv == TypeOK /\ RegisteredExactly /\ CounterIsClients /\ OneSubscriptionPerQuery

\* RegisteredExactly read element by element.
LEMMA ClientIsCall ==
  ASSUME RegisteredExactly, NEW ch \in DOMAIN subs, NEW t
  PROVE  t \in subs[ch].clients <=> \E c \in Sockets : \E k \in Calls(c, ch) : t = <<c, k>>
BY DEF RegisteredExactly

LEMMA EntriesAreCalls ==
  ASSUME RegisteredExactly, NEW ch \in DOMAIN subs, NEW c \in Sockets
  PROVE  Entries(c, ch) = {<<c, k>> : k \in Calls(c, ch)}
<1>1. ASSUME NEW t \in Entries(c, ch) PROVE t \in {<<c, k>> : k \in Calls(c, ch)}
  <2>1. t \in subs[ch].clients /\ t[1] = c
    BY <1>1 DEF Entries
  <2>2. PICK d \in Sockets : \E k \in Calls(d, ch) : t = <<d, k>>
    BY <2>1, ClientIsCall
  <2>3. PICK k \in Calls(d, ch) : t = <<d, k>>
    BY <2>2
  <2> QED BY <2>1, <2>3
<1>2. ASSUME NEW k \in Calls(c, ch) PROVE <<c, k>> \in Entries(c, ch)
  BY <1>2, ClientIsCall DEF Entries
<1> QED BY <1>1, <1>2

LEMMA CallsFinite ==
  ASSUME TypeOK, NEW c \in Sockets, NEW ch
  PROVE  IsFiniteSet(Calls(c, ch))
<1>1. channels[c] \in Seq(1..(nextChannel - 1))
  BY DEF TypeOK
<1>2. DOMAIN channels[c] = 1..Len(channels[c]) /\ Len(channels[c]) \in Nat
  BY <1>1, LenProperties
<1>3. IsFiniteSet(1..Len(channels[c]))
  BY <1>2, FS_Interval
<1> QED BY <1>2, <1>3, FS_Subset DEF Calls

\* A handler has as many entries in a list as it will make calls to have them removed.
LEMMA EntriesMatchCalls ==
  ASSUME TypeOK, RegisteredExactly, NEW c \in Sockets, NEW ch \in DOMAIN subs
  PROVE  /\ IsFiniteSet(Entries(c, ch))
         /\ Cardinality(Entries(c, ch)) = Cardinality(Calls(c, ch))
<1> DEFINE f == [k \in Calls(c, ch) |-> <<c, k>>]
<1>1. f \in Bijection(Calls(c, ch), Entries(c, ch))
  <2>1. f \in [Calls(c, ch) -> Entries(c, ch)]
    BY EntriesAreCalls
  <2>2. \A a, b \in DOMAIN f : f[a] = f[b] => a = b
    OBVIOUS
  <2>3. \A t \in Entries(c, ch) : \E k \in Calls(c, ch) : f[k] = t
    BY EntriesAreCalls
  <2> QED BY <2>1, <2>2, <2>3 DEF Bijection, Injection, Surjection, IsInjective
<1>2. ExistsBijection(Calls(c, ch), Entries(c, ch))
  BY <1>1 DEF ExistsBijection
<1> QED BY <1>2, CallsFinite, FS_Bijection

THEOREM InitIInv == Init => IInv
<1> SUFFICES ASSUME Init PROVE IInv
  OBVIOUS
<1>1. subs = <<>> /\ DOMAIN subs = {} /\ nextChannel = 1
  BY DEF Init
<1>2. TypeOK
  <2>1. MaxChannel \in Nat
    BY ConstantsAssumption
  <2>2. channels \in [Sockets -> Seq(1..(nextChannel - 1))]
    BY EmptySeq DEF Init
  <2>3. nextChannel \in 1..(MaxChannel + 1)
    BY <1>1, <2>1
  <2> QED BY <1>1, <2>2, <2>3 DEF Init, TypeOK
<1>3. RegisteredExactly
  <2>1. \A c \in Sockets : channels[c] = <<>> /\ DOMAIN channels[c] = {}
    BY DEF Init
  <2> QED BY <1>1, <2>1 DEF RegisteredExactly
<1> QED BY <1>1, <1>2, <1>3 DEF IInv, CounterIsClients, OneSubscriptionPerQuery

-----------------------------------------------------------------------------
(* A subscription is added                                                 *)

LEMMA JoinStep ==
  ASSUME IInv, NEW c \in Sockets, NEW ch \in DOMAIN subs,
         JoinChannel(ch, <<c, Len(channels[c]) + 1>>),
         channels' = [channels EXCEPT ![c] = Append(@, ch)],
         socket' = [socket EXCEPT ![c] = "open"],
         raised' = FALSE
  PROVE  IInv'
<1> DEFINE n == Len(channels[c]) + 1
           ticket == <<c, n>>
<1> USE DEF IInv
<1>1. /\ channels \in [Sockets -> Seq(1..(nextChannel - 1))]
      /\ ch \in 1..(nextChannel - 1)
  BY DEF TypeOK
<1>2. /\ Len(channels[c]) \in Nat
      /\ DOMAIN channels[c] = 1..Len(channels[c])
      /\ n \notin DOMAIN channels[c]
  BY <1>1, LenProperties
<1>3. /\ DOMAIN Append(channels[c], ch) = (DOMAIN channels[c]) \cup {n}
      /\ Append(channels[c], ch)[n] = ch
      /\ \A k \in DOMAIN channels[c] : Append(channels[c], ch)[k] = channels[c][k]
  BY <1>1, <1>2, AppendProperties
<1>4. \A d \in Sockets : \A h : Calls(d, h)' = IF d = c /\ h = ch THEN Calls(c, ch) \cup {n} ELSE Calls(d, h)
  BY <1>1, <1>3 DEF Calls
<1>5. /\ DOMAIN subs' = DOMAIN subs
      /\ subs[ch] \in Subscription
      /\ subs'[ch] = [subs[ch] EXCEPT !.subscribers = @ + 1, !.clients = @ \cup {ticket}]
      /\ \A h \in DOMAIN subs \ {ch} : subs'[h] = subs[h]
      /\ nextChannel' = nextChannel
  BY DEF JoinChannel, TypeOK
<1>6. ticket \notin subs[ch].clients
  BY <1>2, ClientIsCall DEF Calls
<1>7. /\ subs'[ch].subscribers = subs[ch].subscribers + 1
      /\ subs'[ch].clients = subs[ch].clients \cup {ticket}
      /\ subs'[ch].conditions = subs[ch].conditions
      /\ subs'[ch].collection = subs[ch].collection
      /\ subs'[ch] \in Subscription
  <2>1. ticket \in Tickets
    BY <1>2 DEF Tickets
  <2>2. subs[ch].clients \in SUBSET Tickets /\ subs[ch].subscribers \in Int
    BY <1>5 DEF Subscription
  <2>3. /\ subs'[ch].subscribers = subs[ch].subscribers + 1
        /\ subs'[ch].clients = subs[ch].clients \cup {ticket}
        /\ subs'[ch].conditions = subs[ch].conditions
        /\ subs'[ch].collection = subs[ch].collection
    BY <1>5 DEF Subscription
  <2>4. subs[ch].clients \cup {ticket} \in SUBSET Tickets /\ subs[ch].subscribers + 1 \in Int
    BY <2>1, <2>2
  <2>5. subs'[ch] \in Subscription
    BY <1>5, <2>4 DEF Subscription
  <2> QED BY <2>3, <2>5
<1>8. TypeOK'
  <2>1. channels' \in [Sockets -> Seq(1..(nextChannel' - 1))]
    BY <1>1, <1>5, AppendProperties
  <2> QED BY <1>5, <1>7, <2>1 DEF TypeOK
<1>9. RegisteredExactly'
  <2>1. ASSUME NEW h \in DOMAIN subs'
        PROVE  subs'[h].clients = UNION {{<<d, k>> : k \in Calls(d, h)'} : d \in Sockets}
    <3>1. CASE h = ch
      <4>1. subs[ch].clients = UNION {{<<d, k>> : k \in Calls(d, ch)} : d \in Sockets}
        BY DEF RegisteredExactly
      <4> QED BY <1>4, <1>7, <3>1, <4>1
    <3>2. CASE h # ch
      <4>1. subs[h].clients = UNION {{<<d, k>> : k \in Calls(d, h)} : d \in Sockets}
        BY <1>5 DEF RegisteredExactly
      <4> QED BY <1>4, <1>5, <3>2, <4>1
    <3> QED BY <3>1, <3>2
  <2>2. \A d \in Sockets : \A k \in DOMAIN channels'[d] : channels'[d][k] \in DOMAIN subs'
    BY <1>1, <1>3, <1>5 DEF RegisteredExactly
  <2>3. \A d \in Sockets \ Live' : channels'[d] = <<>>
    BY <1>1 DEF RegisteredExactly, Live, TypeOK
  <2> QED BY <2>1, <2>2, <2>3 DEF RegisteredExactly
<1>10. CounterIsClients'
  <2>1. subs[ch].subscribers \in Nat /\ IsFiniteSet(subs[ch].clients)
    BY FS_CardinalityType DEF CounterIsClients
  <2>2. /\ IsFiniteSet(subs[ch].clients \cup {ticket})
        /\ Cardinality(subs[ch].clients \cup {ticket}) = Cardinality(subs[ch].clients) + 1
    BY <1>6, <2>1, FS_AddElement
  <2>3. subs[ch].subscribers = Cardinality(subs[ch].clients) /\ subs[ch].subscribers > 0
    BY DEF CounterIsClients
  <2>4. \A h \in DOMAIN subs' \ {ch} : /\ IsFiniteSet(subs'[h].clients)
                                       /\ subs'[h].subscribers = Cardinality(subs'[h].clients)
                                       /\ subs'[h].subscribers > 0
    BY <1>5 DEF CounterIsClients
  <2>5. /\ IsFiniteSet(subs'[ch].clients)
        /\ subs'[ch].subscribers = Cardinality(subs'[ch].clients)
        /\ subs'[ch].subscribers > 0
    BY <1>7, <2>1, <2>2, <2>3
  <2> QED BY <2>4, <2>5 DEF CounterIsClients
<1>11. OneSubscriptionPerQuery'
  <2>1. \A h \in DOMAIN subs : /\ subs'[h].conditions = subs[h].conditions
                              /\ subs'[h].collection = subs[h].collection
    BY <1>5, <1>7
  <2> QED BY <1>5, <2>1 DEF OneSubscriptionPerQuery
<1> QED BY <1>8, <1>9, <1>10, <1>11

LEMMA NewStep ==
  ASSUME IInv, NEW c \in Sockets, NEW query \in Queries, NEW coll \in Collections,
         NEW fields \in FieldLists,
         Shared(query, coll) = {},
         NewChannel(query, coll, fields, <<c, Len(channels[c]) + 1>>),
         channels' = [channels EXCEPT ![c] = Append(@, nextChannel)],
         socket' = [socket EXCEPT ![c] = "open"],
         raised' = FALSE
  PROVE  IInv'
<1> DEFINE n == Len(channels[c]) + 1
           ticket == <<c, n>>
<1> USE DEF IInv
<1> PICK ch : ch = nextChannel
  OBVIOUS
<1>1. /\ channels \in [Sockets -> Seq(1..(ch - 1))]
      /\ DOMAIN subs \subseteq 1..(ch - 1)
      /\ ch \in Nat /\ 1 <= ch /\ MaxChannel \in Nat
  BY ConstantsAssumption DEF TypeOK
<1>2. /\ Len(channels[c]) \in Nat
      /\ DOMAIN channels[c] = 1..Len(channels[c])
      /\ n \notin DOMAIN channels[c]
      /\ \A d \in Sockets : \A k \in DOMAIN channels[d] : channels[d][k] \in 1..(ch - 1)
  <2>1. \A d \in Sockets : /\ Len(channels[d]) \in Nat
                            /\ channels[d] \in [1..Len(channels[d]) -> 1..(ch - 1)]
                            /\ DOMAIN channels[d] = 1..Len(channels[d])
    BY <1>1, LenProperties
  <2>2. n \notin 1..Len(channels[c])
    BY <2>1
  <2> QED BY <2>1, <2>2
<1>3. /\ DOMAIN Append(channels[c], ch) = (DOMAIN channels[c]) \cup {n}
      /\ Append(channels[c], ch)[n] = ch
      /\ \A k \in DOMAIN channels[c] : Append(channels[c], ch)[k] = channels[c][k]
      /\ Append(channels[c], ch) \in Seq(1..ch)
  <2>1. channels[c] \in Seq(1..ch)
    BY <1>1, SeqMonotonic
  <2> QED BY <1>1, <1>2, <2>1, AppendProperties
<1>4. \A d \in Sockets, h \in DOMAIN subs : Calls(d, h)' = Calls(d, h)
  <2>1. /\ channels'[c] = Append(channels[c], ch)
        /\ \A d \in Sockets \ {c} : channels'[d] = channels[d]
    BY <1>1
  <2>2. ASSUME NEW d \in Sockets \ {c}, NEW h \in DOMAIN subs PROVE Calls(d, h)' = Calls(d, h)
    BY <2>1 DEF Calls
  <2>3. ASSUME NEW h \in DOMAIN subs PROVE Calls(c, h)' = Calls(c, h)
    <3>1. h # ch
      BY <1>1
    <3>2. Calls(c, h)' = {k \in (DOMAIN channels[c]) \cup {n} : Append(channels[c], ch)[k] = h}
      BY <1>3, <2>1 DEF Calls
    <3> QED BY <1>3, <3>1, <3>2 DEF Calls
  <2> QED BY <2>2, <2>3
<1>5. Calls(c, ch)' = {n} /\ \A d \in Sockets \ {c} : Calls(d, ch)' = {}
  <2>1. ch \notin 1..(ch - 1)
    BY <1>1
  <2>2. /\ channels'[c] = Append(channels[c], ch)
        /\ \A d \in Sockets \ {c} : channels'[d] = channels[d]
        /\ \A d \in Sockets : \A k \in DOMAIN channels[d] : channels[d][k] # ch
    BY <1>1, <1>2, <2>1
  <2>3. Calls(c, ch)' = {k \in (DOMAIN channels[c]) \cup {n} : Append(channels[c], ch)[k] = ch}
    BY <1>3, <2>2 DEF Calls
  <2>4. \A k \in DOMAIN channels[c] : Append(channels[c], ch)[k] # ch
    BY <1>3, <2>2
  <2>5. Calls(c, ch)' = {n}
    BY <1>3, <2>3, <2>4
  <2>6. ASSUME NEW d \in Sockets \ {c} PROVE Calls(d, ch)' = {}
    BY <2>2 DEF Calls
  <2> QED BY <2>5, <2>6
<1>6. /\ DOMAIN subs' = (DOMAIN subs) \cup {ch}
      /\ subs'[ch] = [conditions |-> query, fields |-> fields, collection |-> coll,
                      subscribers |-> 1, clients |-> {ticket}]
      /\ \A h \in DOMAIN subs : subs'[h] = subs[h]
      /\ nextChannel' = ch + 1
      /\ ch <= MaxChannel
  BY <1>1 DEF NewChannel
<1>7. TypeOK'
  <2>1. channels' \in [Sockets -> Seq(1..(nextChannel' - 1))]
    <3>1. nextChannel' - 1 = ch
      BY <1>1, <1>6
    <3>2. \A d \in Sockets : channels[d] \in Seq(1..ch)
      BY <1>1, SeqMonotonic
    <3> QED BY <1>1, <1>3, <3>1, <3>2
  <2>3. subs'[ch] \in Subscription
    BY <1>2, <1>6 DEF Subscription, Tickets
  <2>4. nextChannel' \in 1..(MaxChannel + 1) /\ DOMAIN subs' \subseteq 1..(nextChannel' - 1)
    BY <1>1, <1>6
  <2> QED BY <1>6, <2>1, <2>3, <2>4 DEF TypeOK
<1>8. RegisteredExactly'
  <2>1. ASSUME NEW h \in DOMAIN subs'
        PROVE  subs'[h].clients = UNION {{<<d, k>> : k \in Calls(d, h)'} : d \in Sockets}
    <3>1. CASE h = ch
      <4>1. subs'[h].clients = {<<c, n>>}
        BY <1>6, <3>1
      <4>2. \A t : t \in UNION {{<<d, k>> : k \in Calls(d, h)'} : d \in Sockets}
                 <=> \E d \in Sockets : \E k \in Calls(d, ch)' : t = <<d, k>>
        BY <3>1
      <4>3. \A t : (\E d \in Sockets : \E k \in Calls(d, ch)' : t = <<d, k>>) <=> t = <<c, n>>
        BY <1>5
      <4> QED BY <4>1, <4>2, <4>3
    <3>2. CASE h # ch
      <4>1. h \in DOMAIN subs /\ subs[h].clients = UNION {{<<d, k>> : k \in Calls(d, h)} : d \in Sockets}
        BY <1>6, <3>2 DEF RegisteredExactly
      <4> QED BY <1>4, <1>6, <4>1
    <3> QED BY <3>1, <3>2
  <2>2. \A d \in Sockets : \A k \in DOMAIN channels'[d] : channels'[d][k] \in DOMAIN subs'
    BY <1>1, <1>3, <1>6 DEF RegisteredExactly
  <2>3. \A d \in Sockets \ Live' : channels'[d] = <<>>
    BY <1>1 DEF RegisteredExactly, Live, TypeOK
  <2> QED BY <2>1, <2>2, <2>3 DEF RegisteredExactly
<1>9. CounterIsClients'
  <2>1. IsFiniteSet({ticket}) /\ Cardinality({ticket}) = 1
    BY FS_Singleton
  <2>2. subs'[ch].clients = {ticket} /\ subs'[ch].subscribers = 1
    BY <1>6
  <2>3. \A h \in DOMAIN subs : /\ IsFiniteSet(subs'[h].clients)
                              /\ subs'[h].subscribers = Cardinality(subs'[h].clients)
                              /\ subs'[h].subscribers > 0
    BY <1>6 DEF CounterIsClients
  <2>4. /\ IsFiniteSet(subs'[ch].clients)
        /\ subs'[ch].subscribers = Cardinality(subs'[ch].clients)
        /\ subs'[ch].subscribers > 0
    BY <2>1, <2>2
  <2> QED BY <1>6, <2>3, <2>4 DEF CounterIsClients
<1>10. OneSubscriptionPerQuery'
  BY <1>6 DEF OneSubscriptionPerQuery, Shared
<1> QED BY <1>7, <1>8, <1>9, <1>10

-----------------------------------------------------------------------------
(* A handler is closed                                                     *)

\* What on_close takes out of a list is exactly what the handler has in it.
LEMMA TakenIsEntries ==
  ASSUME IInv, NEW c \in Sockets, NEW ch \in DOMAIN subs,
         NEW taken, \A t \in taken : t[1] = c,
         Cardinality(taken \cap Entries(c, ch)) = Cardinality(Calls(c, ch))
  PROVE  subs[ch].clients \ taken = subs[ch].clients \ Entries(c, ch)
<1> USE DEF IInv
<1>1. IsFiniteSet(Entries(c, ch)) /\ Cardinality(Entries(c, ch)) = Cardinality(Calls(c, ch))
  BY EntriesMatchCalls
<1>2. taken \cap Entries(c, ch) \in SUBSET Entries(c, ch)
  OBVIOUS
<1>3. taken \cap Entries(c, ch) = Entries(c, ch)
  BY <1>1, <1>2, FS_Subset
<1>4. subs[ch].clients \cap taken \subseteq Entries(c, ch)
  BY DEF Entries
<1> QED BY <1>3, <1>4

LEMMA CloseStep ==
  ASSUME IInv, NEW c \in Sockets, OnClose(c)
  PROVE  IInv'
<1> USE DEF IInv
<1> DEFINE mine == {ch \in DOMAIN subs : Calls(c, ch) # {}}
           Rest(ch) == subs[ch].clients \ Entries(c, ch)
<1>1. PICK taken \in SUBSET UNION {Entries(c, ch) : ch \in mine} :
        /\ \A ch \in mine : Cardinality(taken \cap Entries(c, ch)) = Cardinality(Calls(c, ch))
        /\ subs' = [ch \in {ch \in DOMAIN subs : ch \in mine => Left(c, ch) > 0} |->
                      [subs[ch] EXCEPT !.subscribers = Left(c, ch), !.clients = @ \ taken]]
  BY DEF OnClose, Released
<1>2. /\ channels' = [channels EXCEPT ![c] = <<>>]
      /\ socket' = [socket EXCEPT ![c] = "closed"]
      /\ nextChannel' = nextChannel
      /\ raised' = FALSE
  BY DEF OnClose, Quiet
<1>3. /\ channels \in [Sockets -> Seq(1..(nextChannel - 1))]
      /\ socket \in [Sockets -> {"closed", "open", "lost"}]
  BY DEF TypeOK
<1>4. \A ch \in DOMAIN subs : subs[ch].clients \ taken = Rest(ch)
  <2>1. ASSUME NEW ch \in mine PROVE subs[ch].clients \ taken = Rest(ch)
    <3>1. \A t \in taken : t[1] = c
      BY DEF Entries
    <3>2. Cardinality(taken \cap Entries(c, ch)) = Cardinality(Calls(c, ch))
      BY <1>1
    <3> QED BY <3>1, <3>2, TakenIsEntries
  <2>2. ASSUME NEW ch \in (DOMAIN subs) \ mine PROVE subs[ch].clients \ taken = Rest(ch)
    <3>1. Entries(c, ch) = {}
      BY EntriesAreCalls
    <3>2. subs[ch].clients \cap taken = {}
      <4>1. \A t \in taken : t[1] = c
        BY DEF Entries
      <4> QED BY <3>1, <4>1 DEF Entries
    <3> QED BY <3>1, <3>2
  <2> QED BY <2>1, <2>2
<1>5. ASSUME NEW ch \in DOMAIN subs
      PROVE  /\ IsFiniteSet(Rest(ch))
             /\ Left(c, ch) = Cardinality(Rest(ch))
             /\ Left(c, ch) \in Nat
             /\ ch \notin mine => Left(c, ch) > 0
  <2>1. /\ IsFiniteSet(subs[ch].clients)
        /\ subs[ch].subscribers = Cardinality(subs[ch].clients)
        /\ subs[ch].subscribers > 0
        /\ subs[ch].subscribers \in Nat
    BY FS_CardinalityType DEF CounterIsClients
  <2>2. subs[ch].clients \cap Entries(c, ch) = Entries(c, ch)
    BY DEF Entries
  <2>3. /\ IsFiniteSet(Rest(ch))
        /\ Cardinality(Rest(ch)) = Cardinality(subs[ch].clients) - Cardinality(Entries(c, ch))
    <3>1. /\ IsFiniteSet(subs[ch].clients \ Entries(c, ch))
          /\ Cardinality(subs[ch].clients \ Entries(c, ch))
               = Cardinality(subs[ch].clients) - Cardinality(subs[ch].clients \cap Entries(c, ch))
      BY <2>1, FS_Difference
    <3> QED BY <2>2, <3>1
  <2>4. Cardinality(Entries(c, ch)) = Cardinality(Calls(c, ch))
    BY EntriesMatchCalls
  <2>5. Cardinality(Rest(ch)) \in Nat
    BY <2>3, FS_CardinalityType
  <2>6. ch \notin mine => Cardinality(Calls(c, ch)) = 0
    BY FS_EmptySet
  <2> QED BY <2>1, <2>3, <2>4, <2>5, <2>6 DEF Left
<1>6. DOMAIN subs' = {ch \in DOMAIN subs : Left(c, ch) > 0}
  BY <1>1, <1>5
<1>7. ASSUME NEW ch \in DOMAIN subs'
      PROVE  /\ subs'[ch].subscribers = Left(c, ch)
             /\ subs'[ch].clients = Rest(ch)
             /\ subs'[ch].conditions = subs[ch].conditions
             /\ subs'[ch].collection = subs[ch].collection
             /\ subs'[ch] \in Subscription
  <2>1. ch \in DOMAIN subs /\ subs[ch] \in Subscription
    BY <1>6 DEF TypeOK
  <2>2. subs'[ch] = [subs[ch] EXCEPT !.subscribers = Left(c, ch), !.clients = @ \ taken]
    BY <1>1
  <2>3. Left(c, ch) \in Int /\ Rest(ch) \in SUBSET Tickets
    <3>1. subs[ch].clients \in SUBSET Tickets
      BY <2>1 DEF Subscription
    <3>2. Rest(ch) \in SUBSET Tickets
      BY <3>1
    <3>3. Left(c, ch) \in Nat
      BY <1>5, <2>1
    <3>4. Left(c, ch) \in Int
      BY <3>3
    <3> QED BY <3>2, <3>4
  <2>4. /\ subs'[ch].subscribers = Left(c, ch)
        /\ subs'[ch].clients = Rest(ch)
        /\ subs'[ch].conditions = subs[ch].conditions
        /\ subs'[ch].collection = subs[ch].collection
    BY <1>4, <2>1, <2>2 DEF Subscription
  <2>5. subs'[ch] = [subs[ch] EXCEPT !.subscribers = Left(c, ch), !.clients = Rest(ch)]
    BY <1>4, <2>1, <2>2
  <2>6. subs'[ch] \in Subscription
    BY <2>1, <2>3, <2>5 DEF Subscription
  <2> QED BY <2>4, <2>6
<1>8. TypeOK'
  <2>1. channels' \in [Sockets -> Seq(1..(nextChannel' - 1))]
    BY <1>2, <1>3, EmptySeq
  <2> QED BY <1>2, <1>3, <1>6, <1>7, <2>1 DEF TypeOK
<1>9. RegisteredExactly'
  <2>1. \A h : Calls(c, h)' = {} /\ \A d \in Sockets \ {c} : Calls(d, h)' = Calls(d, h)
    BY <1>2, <1>3 DEF Calls
  <2>2. ASSUME NEW h \in DOMAIN subs'
        PROVE  subs'[h].clients = UNION {{<<d, k>> : k \in Calls(d, h)'} : d \in Sockets}
    <3>1. h \in DOMAIN subs /\ subs'[h].clients = subs[h].clients \ Entries(c, h)
      BY <1>6, <1>7
    <3>2. ASSUME NEW t PROVE t \in subs'[h].clients <=> \E d \in Sockets : \E k \in Calls(d, h)' : t = <<d, k>>
      <4>1. t \in subs'[h].clients <=> \E d \in Sockets \ {c} : \E k \in Calls(d, h) : t = <<d, k>>
        BY <3>1, ClientIsCall, EntriesAreCalls
      <4> QED BY <2>1, <4>1
    <3> QED BY <3>2
  <2>3. ASSUME NEW d \in Sockets, NEW k \in DOMAIN channels'[d]
        PROVE  channels'[d][k] \in DOMAIN subs'
    <3>1. d # c /\ channels'[d] = channels[d]
      BY <1>2, <1>3
    <3>2. channels[d][k] \in DOMAIN subs /\ k \in Calls(d, channels[d][k])
      BY <3>1 DEF RegisteredExactly, Calls
    <3>3. <<d, k>> \in Rest(channels[d][k])
      BY <3>1, <3>2, ClientIsCall DEF Entries
    <3>4. Left(c, channels[d][k]) > 0
      <4>1. Left(c, channels[d][k]) = Cardinality(Rest(channels[d][k])) /\ Left(c, channels[d][k]) \in Nat
        BY <1>5, <3>2
      <4>2. IsFiniteSet(Rest(channels[d][k])) /\ Rest(channels[d][k]) # {}
        BY <1>5, <3>2, <3>3
      <4>3. Cardinality(Rest(channels[d][k])) # 0
        BY <4>2, FS_EmptySet
      <4> QED BY <4>1, <4>3
    <3> QED BY <1>6, <3>1, <3>2, <3>4
  <2>4. \A d \in Sockets \ Live' : channels'[d] = <<>>
    BY <1>2, <1>3 DEF RegisteredExactly, Live
  <2> QED BY <2>2, <2>3, <2>4 DEF RegisteredExactly
<1>10. CounterIsClients'
  BY <1>5, <1>6, <1>7 DEF CounterIsClients
<1>11. OneSubscriptionPerQuery'
  BY <1>6, <1>7 DEF OneSubscriptionPerQuery
<1> QED BY <1>8, <1>9, <1>10, <1>11

-----------------------------------------------------------------------------
(* The invariant                                                           *)

\* Whatever changes only the state of live sockets, or only what was sent, keeps the books.
LEMMA OtherStep ==
  ASSUME IInv, UNCHANGED <<subs, nextChannel, channels>>,
         socket' \in [Sockets -> {"closed", "open", "lost"}], Live \subseteq Live',
         raised' \in BOOLEAN
  PROVE  IInv'
<1>1. TypeOK'
  BY DEF IInv, TypeOK
<1>2. \A c, ch : Calls(c, ch)' = Calls(c, ch)
  BY DEF Calls
<1>3. RegisteredExactly'
  BY <1>2 DEF IInv, RegisteredExactly
<1> QED BY <1>1, <1>3 DEF IInv, CounterIsClients, OneSubscriptionPerQuery

THEOREM NextIInv == IInv /\ [Next]_vars => IInv'
<1> SUFFICES ASSUME IInv, [Next]_vars PROVE IInv'
  OBVIOUS
<1>1. socket \in [Sockets -> {"closed", "open", "lost"}] /\ raised \in BOOLEAN
  BY DEF IInv, TypeOK
<1>2. ASSUME NEW c \in Sockets, AddSubscription(c), raised' = FALSE,
             socket' = [socket EXCEPT ![c] = "open"]
      PROVE  IInv'
  <2>1. PICK query \in Queries, coll \in Collections, fields \in FieldLists :
          \/ \E ch \in Shared(query, coll) :
                /\ JoinChannel(ch, <<c, Len(channels[c]) + 1>>)
                /\ channels' = [channels EXCEPT ![c] = Append(@, ch)]
          \/ /\ Shared(query, coll) = {}
             /\ NewChannel(query, coll, fields, <<c, Len(channels[c]) + 1>>)
             /\ channels' = [channels EXCEPT ![c] = Append(@, nextChannel)]
    BY <1>2 DEF AddSubscription
  <2>2. CASE \E ch \in Shared(query, coll) :
               /\ JoinChannel(ch, <<c, Len(channels[c]) + 1>>)
               /\ channels' = [channels EXCEPT ![c] = Append(@, ch)]
    <3>1. PICK ch \in DOMAIN subs :
               /\ JoinChannel(ch, <<c, Len(channels[c]) + 1>>)
               /\ channels' = [channels EXCEPT ![c] = Append(@, ch)]
      BY <2>2 DEF Shared
    <3> QED BY <1>2, <3>1, JoinStep
  <2>3. CASE /\ Shared(query, coll) = {}
             /\ NewChannel(query, coll, fields, <<c, Len(channels[c]) + 1>>)
             /\ channels' = [channels EXCEPT ![c] = Append(@, nextChannel)]
    BY <1>2, <2>1, <2>3, NewStep
  <2> QED BY <2>1, <2>2, <2>3
<1>3. ASSUME NEW c \in Sockets, OpenBare(c) PROVE IInv'
  BY <1>1, <1>3, OtherStep DEF OpenBare, Quiet, Live
<1>4. ASSUME NEW c \in Sockets, OpenOn(c) PROVE IInv'
  BY <1>2, <1>4 DEF OpenOn, Quiet
<1>5. ASSUME NEW c \in Sockets, OnMessage(c) PROVE IInv'
  <2>1. socket' = [socket EXCEPT ![c] = "open"]
    BY <1>1, <1>5 DEF OnMessage
  <2> QED BY <1>2, <1>5, <2>1 DEF OnMessage, Quiet
<1>6. ASSUME NEW c \in Sockets, Lose(c) PROVE IInv'
  BY <1>1, <1>6, OtherStep DEF Lose, Quiet, Live
<1>7. ASSUME NEW c \in Sockets, OnClose(c) PROVE IInv'
  BY <1>7, CloseStep
<1>8. CASE Publish
  <2>1. UNCHANGED <<subs, nextChannel, socket, channels>> /\ raised' \in BOOLEAN
    BY <1>8 DEF Publish
  <2> QED BY <1>1, <2>1, OtherStep DEF Live
<1>9. CASE UNCHANGED vars
  BY <1>1, <1>9, OtherStep DEF vars, Live
<1> QED BY <1>3, <1>4, <1>5, <1>6, <1>7, <1>8, <1>9 DEF Next

LEMMA SpecIInv == Spec => []IInv
BY InitIInv, NextIInv, PTL DEF Spec

-----------------------------------------------------------------------------
(* Results                                                                 *)

\* The manager's and the handlers' state stays well formed.
THEOREM TypeCorrect == Spec => []TypeOK
BY SpecIInv, PTL DEF IInv

\* The subscriber count of a channel is the length of its client list, and is never zero.
THEOREM CountersAgree == Spec => []CounterIsClients
BY SpecIInv, PTL DEF IInv

\* Client lists and the channels that handlers remember are two views of one relation.
THEOREM ListsAgree == Spec => []RegisteredExactly
BY SpecIInv, PTL DEF IInv

\* Two subscriptions never share conditions and collection.
THEOREM QueriesUnique == Spec => []OneSubscriptionPerQuery
BY SpecIInv, PTL DEF IInv

\* The list.remove call of removeChannel always has an entry to remove.
THEOREM RemovalSafe == Spec => []RemovalNeverRaises
<1>1. IInv => RemovalNeverRaises
  <2> SUFFICES ASSUME IInv, NEW c \in Sockets, NEW ch \in DOMAIN subs
               PROVE  Cardinality(Entries(c, ch)) >= Cardinality(Calls(c, ch))
    BY DEF RemovalNeverRaises, Live
  <2>1. Cardinality(Entries(c, ch)) = Cardinality(Calls(c, ch)) /\ IsFiniteSet(Entries(c, ch))
    BY EntriesMatchCalls DEF IInv
  <2> QED BY <2>1, FS_CardinalityType
<1> QED BY <1>1, SpecIInv, PTL

-----------------------------------------------------------------------------
(* The manager implements the service                                      *)

AsksBar == [c \in Sockets |-> AsksOf(c)]
LostBar == {c \in Sockets : socket[c] = "lost"}

Interest(k, query, coll, given) ==
  [n |-> k, query |-> query, collection |-> coll, fields |-> given]

\* The interest that a handler's k-th channel stands for.
Mine(c, k) == Interest(k, subs[channels[c][k]].conditions, subs[channels[c][k]].collection,
                       subs[channels[c][k]].fields)

\* Every channel is remembered by a handler.
LEMMA Holder ==
  ASSUME IInv, NEW ch \in DOMAIN subs
  PROVE  \E c \in Sockets : \E k \in DOMAIN channels[c] : channels[c][k] = ch
<1>1. subs[ch].clients # {}
  BY FS_EmptySet DEF IInv, CounterIsClients
<1>2. PICK t : t \in subs[ch].clients
  BY <1>1
<1>3. PICK c \in Sockets : \E k \in Calls(c, ch) : t = <<c, k>>
  BY <1>2, ClientIsCall DEF IInv
<1> QED BY <1>3 DEF Calls

\* The channels a handler remembers are a finite list of channels made so far.
LEMMA ChannelsTyped ==
  ASSUME TypeOK, NEW c \in Sockets
  PROVE  /\ Len(channels[c]) \in Nat /\ DOMAIN channels[c] = 1..Len(channels[c])
         /\ channels[c] \in Seq(1..(nextChannel - 1))
BY LenProperties DEF TypeOK

\* A handler has as many interests as channels.
LEMMA AsksCounted ==
  ASSUME TypeOK, NEW c \in Sockets
  PROVE  Cardinality(AsksOf(c)) = Len(channels[c])
<1> DEFINE f == [k \in DOMAIN channels[c] |-> Mine(c, k)]
<1>1. AsksOf(c) = {f[k] : k \in DOMAIN channels[c]}
  BY DEF AsksOf, Mine, Interest
<1>2. \A a, b \in DOMAIN f : f[a] = f[b] => a = b
  <2> SUFFICES ASSUME NEW a \in DOMAIN f, NEW b \in DOMAIN f, f[a] = f[b] PROVE a = b
    OBVIOUS
  <2>1. f[a].n = a /\ f[b].n = b
    BY DEF Mine, Interest
  <2> QED BY <2>1
<1>3. f \in Bijection(DOMAIN channels[c], AsksOf(c))
  <2>1. f \in [DOMAIN channels[c] -> AsksOf(c)]
    BY <1>1
  <2> QED BY <1>1, <1>2, <2>1 DEF Bijection, Injection, Surjection, IsInjective
<1>4. IsFiniteSet(DOMAIN channels[c]) /\ Cardinality(DOMAIN channels[c]) = Len(channels[c])
  BY ChannelsTyped, FS_Interval
<1> QED BY <1>3, <1>4, FS_Bijection DEF ExistsBijection

\* The interests of a handler whose channels and whose subscriptions stay.
LEMMA SameInterests ==
  ASSUME NEW c \in Sockets, channels'[c] = channels[c],
         \A k \in DOMAIN channels[c] :
           /\ subs'[channels[c][k]].conditions = subs[channels[c][k]].conditions
           /\ subs'[channels[c][k]].collection = subs[channels[c][k]].collection
           /\ subs'[channels[c][k]].fields = subs[channels[c][k]].fields
  PROVE  AsksOf(c)' = AsksOf(c)
BY DEF AsksOf

\* A channel more is an interest more, and the others stay what they were.
LEMMA NewInterest ==
  ASSUME TypeOK, NEW c \in Sockets, NEW ch \in Nat, NEW query, NEW coll, NEW given,
         channels'[c] = Append(channels[c], ch),
         subs'[ch].conditions = query, subs'[ch].collection = coll, subs'[ch].fields = given,
         \A k \in DOMAIN channels[c] :
           /\ subs'[channels[c][k]].conditions = subs[channels[c][k]].conditions
           /\ subs'[channels[c][k]].collection = subs[channels[c][k]].collection
           /\ subs'[channels[c][k]].fields = subs[channels[c][k]].fields
  PROVE  AsksOf(c)' = AsksOf(c) \cup {Interest(Cardinality(AsksOf(c)) + 1, query, coll, given)}
<1>1. Len(channels[c]) \in Nat /\ DOMAIN channels[c] = 1..Len(channels[c])
  BY ChannelsTyped
<1>2. channels[c] \in Seq(Nat)
  BY ChannelsTyped, SeqMonotonic DEF TypeOK
<1>3. /\ DOMAIN channels'[c] = 1..(Len(channels[c]) + 1)
      /\ \A k \in 1..Len(channels[c]) : channels'[c][k] = channels[c][k]
      /\ channels'[c][Len(channels[c]) + 1] = ch
  BY <1>2, AppendProperties, LenProperties
<1> DEFINE Old(k) == Mine(c, k)
           New(k) == Interest(k, subs'[channels'[c][k]].conditions, subs'[channels'[c][k]].collection,
                              subs'[channels'[c][k]].fields)
<1>4. AsksOf(c) = {Old(k) : k \in 1..Len(channels[c])}
  BY <1>1 DEF AsksOf, Mine, Interest
<1>5. AsksOf(c)' = {New(k) : k \in 1..(Len(channels[c]) + 1)}
  BY <1>3 DEF AsksOf, Interest
<1>6. \A k \in 1..Len(channels[c]) : New(k) = Old(k)
  BY <1>1, <1>3 DEF Mine
<1>7. New(Len(channels[c]) + 1) = Interest(Len(channels[c]) + 1, query, coll, given)
  BY <1>3
<1>8. 1..(Len(channels[c]) + 1) = 1..Len(channels[c]) \cup {Len(channels[c]) + 1}
  BY <1>1
<1> HIDE DEF Old, New
<1>9. AsksOf(c)' = {Old(k) : k \in 1..Len(channels[c])} \cup {Interest(Len(channels[c]) + 1, query, coll, given)}
  BY <1>5, <1>6, <1>7, <1>8
<1> QED BY <1>4, <1>9, AsksCounted

\* The filters with which the service says an interest is held are those of the shared channels.
LEMMA HeldIs ==
  ASSUME IInv, NEW query, NEW coll
  PROVE  /\ \A ch \in Shared(query, coll) : subs[ch].fields \in PS!Held(query, coll)
         /\ Shared(query, coll) = {} => PS!Held(query, coll) = {}
<1>1. PS!Held(query, coll) =
        {a.fields : a \in {a \in UNION {AsksOf(c) : c \in Sockets} : a.query = query /\ a.collection = coll}}
  BY DEF PS!Held
<1>2. \A c \in Sockets : AsksOf(c) = {Mine(c, k) : k \in DOMAIN channels[c]}
  BY DEF AsksOf, Mine, Interest
<1>3. \A c \in Sockets : \A k \in DOMAIN channels[c] : channels[c][k] \in DOMAIN subs
  BY DEF IInv, RegisteredExactly
<1>4. ASSUME NEW ch \in Shared(query, coll) PROVE subs[ch].fields \in PS!Held(query, coll)
  <2>1. ch \in DOMAIN subs /\ subs[ch].conditions = query /\ subs[ch].collection = coll
    BY DEF Shared
  <2>2. PICK c \in Sockets : \E k \in DOMAIN channels[c] : channels[c][k] = ch
    BY <2>1, Holder
  <2>3. PICK k \in DOMAIN channels[c] : channels[c][k] = ch
    BY <2>2
  <2>4. PICK a : a = Mine(c, k)
    OBVIOUS
  <2>5. a.query = query /\ a.collection = coll /\ a.fields = subs[ch].fields
    BY <2>1, <2>3, <2>4 DEF Mine, Interest
  <2>6. a \in UNION {AsksOf(d) : d \in Sockets}
    BY <1>2, <2>4
  <2> QED BY <1>1, <2>5, <2>6
<1>5. ASSUME Shared(query, coll) = {}, NEW c \in Sockets, NEW a \in AsksOf(c),
             a.query = query, a.collection = coll
      PROVE  FALSE
  <2>1. PICK k \in DOMAIN channels[c] : a = Mine(c, k)
    BY <1>2
  <2>2. channels[c][k] \in Shared(query, coll)
    BY <1>3, <1>5, <2>1 DEF Mine, Interest, Shared
  <2> QED BY <1>5, <2>2
<1> QED BY <1>1, <1>4, <1>5

\* A subscription that is joined or new is an interest more, whose number is the next one and
\* whose filter is the one the interest is held with, if it is.
LEMMA AddAsks ==
  ASSUME IInv, NEW c \in Sockets, AddSubscription(c), socket[c] # "lost", socket'[c] = "open",
         \A d \in Sockets : d # c => socket'[d] = socket[d], Quiet
  PROVE  PS!Ask(c)
<1>1. PICK query \in Queries, coll \in Collections, fields \in FieldLists :
        \/ \E ch \in Shared(query, coll) :
             /\ JoinChannel(ch, <<c, Len(channels[c]) + 1>>)
             /\ channels' = [channels EXCEPT ![c] = Append(@, ch)]
        \/ /\ Shared(query, coll) = {}
           /\ NewChannel(query, coll, fields, <<c, Len(channels[c]) + 1>>)
           /\ channels' = [channels EXCEPT ![c] = Append(@, nextChannel)]
  BY DEF AddSubscription
<1>2. \A d \in Sockets : \A k \in DOMAIN channels[d] : channels[d][k] \in DOMAIN subs
  BY DEF IInv, RegisteredExactly
<1>3. PICK ch \in Nat, given \in PS!Offered(query, coll) :
        /\ channels' = [channels EXCEPT ![c] = Append(@, ch)]
        /\ subs'[ch].conditions = query /\ subs'[ch].collection = coll /\ subs'[ch].fields = given
        /\ \A x \in DOMAIN subs : /\ subs'[x].conditions = subs[x].conditions
                                  /\ subs'[x].collection = subs[x].collection
                                  /\ subs'[x].fields = subs[x].fields
  <2>1. DOMAIN subs \subseteq Nat /\ nextChannel \in Nat /\ nextChannel \notin DOMAIN subs
    BY DEF IInv, TypeOK
  <2>2. CASE \E ch \in Shared(query, coll) :
             /\ JoinChannel(ch, <<c, Len(channels[c]) + 1>>)
             /\ channels' = [channels EXCEPT ![c] = Append(@, ch)]
    <3>1. PICK ch \in Shared(query, coll) :
             /\ JoinChannel(ch, <<c, Len(channels[c]) + 1>>)
             /\ channels' = [channels EXCEPT ![c] = Append(@, ch)]
      BY <2>2
    <3>2. ch \in DOMAIN subs /\ subs[ch].conditions = query /\ subs[ch].collection = coll
      BY DEF Shared
    <3>3. \A x \in DOMAIN subs : subs[x] \in Subscription
      BY DEF IInv, TypeOK
    <3>4. subs' = [subs EXCEPT ![ch].subscribers = @ + 1, ![ch].clients = @ \cup {<<c, Len(channels[c]) + 1>>}]
      BY <3>1 DEF JoinChannel
    <3>5. \A x \in DOMAIN subs : /\ subs'[x].conditions = subs[x].conditions
                                 /\ subs'[x].collection = subs[x].collection
                                 /\ subs'[x].fields = subs[x].fields
      BY <3>2, <3>3, <3>4 DEF Subscription
    <3>6. subs[ch].fields \in PS!Offered(query, coll)
      BY HeldIs DEF PS!Offered
    <3> QED BY <2>1, <3>1, <3>2, <3>5, <3>6
  <2>3. CASE /\ Shared(query, coll) = {}
             /\ NewChannel(query, coll, fields, <<c, Len(channels[c]) + 1>>)
             /\ channels' = [channels EXCEPT ![c] = Append(@, nextChannel)]
    <3>1. subs' = [ch \in DOMAIN subs \cup {nextChannel} |->
                IF ch = nextChannel
                THEN [conditions |-> query, fields |-> fields, collection |-> coll,
                      subscribers |-> 1, clients |-> {<<c, Len(channels[c]) + 1>>}]
                ELSE subs[ch]]
      BY <2>3 DEF NewChannel
    <3>2. /\ subs'[nextChannel].conditions = query /\ subs'[nextChannel].collection = coll
          /\ subs'[nextChannel].fields = fields
      BY <3>1
    <3>3. \A x \in DOMAIN subs : subs'[x] = subs[x]
      BY <2>1, <3>1
    <3>4. fields \in PS!Offered(query, coll)
      BY <2>3, HeldIs DEF PS!Offered
    <3> QED BY <2>1, <2>3, <3>2, <3>3, <3>4
  <2> QED BY <1>1, <2>2, <2>3
<1>4. DOMAIN channels = Sockets
  BY DEF IInv, TypeOK
<1>5. AsksOf(c)' = AsksOf(c) \cup {Interest(Cardinality(AsksOf(c)) + 1, query, coll, given)}
  <2>1. channels'[c] = Append(channels[c], ch)
    BY <1>3, <1>4
  <2> QED BY <1>2, <1>3, <2>1, NewInterest DEF IInv
<1>6. \A d \in Sockets : d # c => AsksOf(d)' = AsksOf(d)
  BY <1>2, <1>3, <1>4, SameInterests
<1>7. AsksBar' = [AsksBar EXCEPT ![c] = @ \cup {Interest(Cardinality(@) + 1, query, coll, given)}]
  BY <1>5, <1>6 DEF AsksBar
<1>8. c \notin LostBar /\ LostBar' = LostBar
  BY DEF LostBar
<1>9. mail' = {} /\ raised' = FALSE
  BY DEF Quiet
<1>10. \A S : PS!Cardinality(S) = Cardinality(S)
  BY DEF PS!Cardinality, Cardinality
<1>11. PICK g \in PS!Offered(query, coll) : g = given
  OBVIOUS
<1> QED BY <1>7, <1>8, <1>9, <1>10, <1>11 DEF PS!Ask, AsksBar, LostBar, Interest

\* Connections that open without a subscription, are lost or end.
LEMMA OpenBareStep ==
  ASSUME IInv, NEW c \in Sockets, OpenBare(c)
  PROVE  PS!Leave(c)
<1>1. channels[c] = <<>> /\ socket \in [Sockets -> {"closed", "open", "lost"}]
  BY DEF IInv, RegisteredExactly, TypeOK, OpenBare, Live
<1>2. \A d \in Sockets : AsksOf(d)' = AsksOf(d)
  BY SameInterests DEF OpenBare
<1>3. AsksOf(c) = {}
  BY <1>1 DEF AsksOf
<1>4. AsksBar' = [AsksBar EXCEPT ![c] = {}]
  BY <1>2, <1>3 DEF AsksBar
<1>5. LostBar' = LostBar \ {c}
  BY <1>1 DEF LostBar, OpenBare
<1>6. mail' = {} /\ raised' = FALSE
  BY DEF OpenBare, Quiet
<1> QED BY <1>4, <1>5, <1>6 DEF PS!Leave, AsksBar, LostBar

\* A peer that goes away keeps its interests until on_close runs.
LEMMA LoseStep ==
  ASSUME IInv, NEW c \in Sockets, Lose(c)
  PROVE  PS!Fade(c)
<1>1. socket \in [Sockets -> {"closed", "open", "lost"}]
  BY DEF IInv, TypeOK
<1>2. AsksBar' = AsksBar
  BY SameInterests DEF Lose, AsksBar
<1>3. LostBar' = LostBar \cup {c}
  BY <1>1 DEF LostBar, Lose
<1>4. mail' = {} /\ raised' = FALSE
  BY DEF Lose, Quiet
<1> QED BY <1>2, <1>3, <1>4 DEF PS!Fade, AsksBar, LostBar

\* What others remember is still there afterwards, unchanged but for its clients.
LEMMA CloseAsks ==
  ASSUME IInv, NEW c \in Sockets, OnClose(c)
  PROVE  PS!Leave(c)
<1>1. IInv'
  BY CloseStep
<1>2. socket \in [Sockets -> {"closed", "open", "lost"}] /\ DOMAIN channels = Sockets
  BY DEF IInv, TypeOK
<1>3. /\ channels' = [channels EXCEPT ![c] = <<>>] /\ socket' = [socket EXCEPT ![c] = "closed"]
      /\ Quiet
  BY DEF OnClose
<1>4. PICK taken : subs' = [ch \in {ch \in DOMAIN subs : Calls(c, ch) # {} => Left(c, ch) > 0} |->
                              Released(c, ch, taken)]
  BY DEF OnClose
<1>5. ASSUME NEW x \in DOMAIN subs'
      PROVE  /\ subs'[x].conditions = subs[x].conditions
             /\ subs'[x].collection = subs[x].collection
             /\ subs'[x].fields = subs[x].fields
  <2>1. x \in DOMAIN subs /\ subs'[x] = Released(c, x, taken)
    BY <1>4
  <2>2. subs[x] \in Subscription
    BY <2>1 DEF IInv, TypeOK
  <2> QED BY <2>1, <2>2 DEF Released, Subscription
<1>6. ASSUME NEW d \in Sockets, d # c PROVE AsksOf(d)' = AsksOf(d)
  <2>1. channels'[d] = channels[d]
    BY <1>2, <1>3, <1>6
  <2>2. \A k \in DOMAIN channels[d] : channels[d][k] \in DOMAIN subs'
    BY <1>1, <2>1 DEF IInv, RegisteredExactly
  <2> QED BY <1>5, <2>1, <2>2, SameInterests
<1>7. AsksOf(c)' = {}
  BY <1>2, <1>3 DEF AsksOf
<1>8. AsksBar' = [AsksBar EXCEPT ![c] = {}]
  BY <1>6, <1>7 DEF AsksBar
<1>9. LostBar' = LostBar \ {c}
  BY <1>2, <1>3 DEF LostBar
<1>10. mail' = {} /\ raised' = FALSE
  BY <1>3 DEF Quiet
<1> QED BY <1>8, <1>9, <1>10 DEF PS!Leave, AsksBar, LostBar

\* The message about a hit, what is in it, and which pairs end the call.
Note(c, k, i, data) == [to |-> c, ask |-> k, index |-> i, data |-> data]
DataOf(ch, r, custom) == IF custom THEN Has[r] ELSE Trimmed(r, ch)
Failing(batch, coll, custom) ==
  CannotTell(batch, coll) \cup {p \in Hits(batch, coll) : ~custom /\ TrimRaises(batch[p[1]], p[2])}
Sendable(batch, coll, custom) == Hits(batch, coll) \ Failing(batch, coll, custom)

\* A pair that fails is an interest that fails, whoever holds it.
LEMMA FailsIs ==
  ASSUME IInv, NEW batch, NEW coll, NEW custom \in BOOLEAN,
         NEW c \in Sockets, NEW k \in DOMAIN channels[c], NEW i \in DOMAIN batch
  PROVE  <<i, channels[c][k]>> \in Failing(batch, coll, custom)
         <=> Mine(c, k).collection = coll /\ PS!Fails(Mine(c, k), batch[i], custom)
<1>1. PICK ch \in DOMAIN subs : ch = channels[c][k]
  BY DEF IInv, RegisteredExactly
<1>2. /\ Mine(c, k).collection = subs[ch].collection /\ Mine(c, k).query = subs[ch].conditions
      /\ Mine(c, k).fields = subs[ch].fields
  BY <1>1 DEF Mine, Interest
<1>3. PS!Fails(Mine(c, k), batch[i], custom) <=>
        \/ batch[i] \in Raises[subs[ch].conditions]
        \/ batch[i] \in Accepts[subs[ch].conditions] /\ ~custom /\ TrimRaises(batch[i], ch)
  BY <1>2 DEF PS!Fails, TrimRaises
<1>4. <<i, ch>> \in CannotTell(batch, coll)
        <=> subs[ch].collection = coll /\ batch[i] \in Raises[subs[ch].conditions]
  BY DEF CannotTell
<1>5. <<i, ch>> \in Hits(batch, coll)
        <=> subs[ch].collection = coll /\ batch[i] \in Accepts[subs[ch].conditions]
  BY DEF Hits
<1>6. <<i, ch>> \in Failing(batch, coll, custom)
        <=> \/ <<i, ch>> \in CannotTell(batch, coll)
            \/ <<i, ch>> \in Hits(batch, coll) /\ ~custom /\ TrimRaises(batch[i], ch)
  BY DEF Failing
<1> QED BY <1>1, <1>2, <1>3, <1>4, <1>5, <1>6

\* The resources at which a call is cut are those of the failing pairs.
LEMMA BrokenIs ==
  ASSUME IInv, NEW batch, NEW coll, NEW custom \in BOOLEAN, NEW i
  PROVE  i \in PS!Broken(batch, coll, custom)
         <=> \E ch \in DOMAIN subs : i \in DOMAIN batch /\ <<i, ch>> \in Failing(batch, coll, custom)
<1>1. \A c \in Sockets : AsksOf(c) = {Mine(c, k) : k \in DOMAIN channels[c]}
  BY DEF AsksOf, Mine, Interest
<1>2. i \in PS!Broken(batch, coll, custom) <=>
        /\ i \in DOMAIN batch
        /\ \E c \in Sockets : \E a \in AsksOf(c) : a.collection = coll /\ PS!Fails(a, batch[i], custom)
  BY DEF PS!Broken
<1>3. (\E c \in Sockets : \E a \in AsksOf(c) : a.collection = coll /\ PS!Fails(a, batch[i], custom))
      <=> \E c \in Sockets : \E k \in DOMAIN channels[c] :
            Mine(c, k).collection = coll /\ PS!Fails(Mine(c, k), batch[i], custom)
  <2> DEFINE Bad(a) == a.collection = coll /\ PS!Fails(a, batch[i], custom)
  <2> HIDE DEF Bad
  <2>1. \A c \in Sockets : (\E a \in AsksOf(c) : Bad(a)) <=> \E k \in DOMAIN channels[c] : Bad(Mine(c, k))
    BY <1>1
  <2>2. (\E c \in Sockets : \E a \in AsksOf(c) : Bad(a))
        <=> \E c \in Sockets : \E k \in DOMAIN channels[c] : Bad(Mine(c, k))
    BY <2>1
  <2> QED BY <2>2 DEF Bad
<1>4. ASSUME i \in DOMAIN batch, NEW ch \in DOMAIN subs, <<i, ch>> \in Failing(batch, coll, custom)
      PROVE  i \in PS!Broken(batch, coll, custom)
  <2>1. PICK c \in Sockets : \E k \in DOMAIN channels[c] : channels[c][k] = ch
    BY Holder
  <2>2. PICK k \in DOMAIN channels[c] : channels[c][k] = ch
    BY <2>1
  <2>3. Mine(c, k).collection = coll /\ PS!Fails(Mine(c, k), batch[i], custom)
    BY <1>4, <2>2, FailsIs
  <2> QED BY <1>2, <1>3, <1>4, <2>3
<1>5. ASSUME i \in PS!Broken(batch, coll, custom)
      PROVE  \E ch \in DOMAIN subs : i \in DOMAIN batch /\ <<i, ch>> \in Failing(batch, coll, custom)
  <2>1. i \in DOMAIN batch
    BY <1>2, <1>5
  <2>2. PICK c \in Sockets : \E k \in DOMAIN channels[c] :
            Mine(c, k).collection = coll /\ PS!Fails(Mine(c, k), batch[i], custom)
    BY <1>2, <1>3, <1>5
  <2>3. PICK k \in DOMAIN channels[c] :
            Mine(c, k).collection = coll /\ PS!Fails(Mine(c, k), batch[i], custom)
    BY <2>2
  <2>4. <<i, channels[c][k]>> \in Failing(batch, coll, custom)
    BY <2>1, <2>3, FailsIs
  <2>5. channels[c][k] \in DOMAIN subs
    BY DEF IInv, RegisteredExactly
  <2> QED BY <2>1, <2>4, <2>5
<1> QED BY <1>4, <1>5

\* A handler that has not lost its peer is owed what it remembers a channel for.
LEMMA OwedIs ==
  ASSUME IInv, NEW batch, NEW coll, NEW custom \in BOOLEAN, NEW m
  PROVE  m \in PS!Owed(batch, coll, custom) <=>
           \E c \in Sockets : \E k \in DOMAIN channels[c] : \E i \in DOMAIN batch :
             /\ m = Note(c, k, i, DataOf(channels[c][k], batch[i], custom)) /\ socket[c] # "lost"
             /\ <<i, channels[c][k]>> \in Sendable(batch, coll, custom)
<1> DEFINE Due(c, a, i) ==
      /\ a.collection = coll /\ batch[i] \in Accepts[a.query] /\ ~PS!Fails(a, batch[i], custom)
      /\ m = Note(c, a.n, i, PS!Content(a, batch[i], custom))
<1>1. m \in PS!Owed(batch, coll, custom) <=>
        \E c \in Sockets \ LostBar : \E p \in AsksOf(c) \X (DOMAIN batch) : Due(c, p[1], p[2])
  BY DEF PS!Owed, PS!OwedTo, LostBar, Note
<1>2. ASSUME NEW c \in Sockets, NEW k \in DOMAIN channels[c], NEW i \in DOMAIN batch
      PROVE  Due(c, Mine(c, k), i) <=>
               /\ m = Note(c, k, i, DataOf(channels[c][k], batch[i], custom))
               /\ <<i, channels[c][k]>> \in Sendable(batch, coll, custom)
  <2>1. PICK ch \in DOMAIN subs : ch = channels[c][k]
    BY DEF IInv, RegisteredExactly
  <2>2. /\ Mine(c, k).collection = subs[ch].collection /\ Mine(c, k).query = subs[ch].conditions
        /\ Mine(c, k).fields = subs[ch].fields /\ Mine(c, k).n = k
    BY <2>1 DEF Mine, Interest
  <2>3. PS!Content(Mine(c, k), batch[i], custom) = DataOf(channels[c][k], batch[i], custom)
    BY <2>1, <2>2 DEF PS!Content, DataOf, Trimmed
  <2>4. <<i, ch>> \in Hits(batch, coll)
          <=> subs[ch].collection = coll /\ batch[i] \in Accepts[subs[ch].conditions]
    BY DEF Hits
  <2>5. <<i, channels[c][k]>> \in Failing(batch, coll, custom)
          <=> Mine(c, k).collection = coll /\ PS!Fails(Mine(c, k), batch[i], custom)
    BY FailsIs
  <2> QED BY <2>1, <2>2, <2>3, <2>4, <2>5 DEF Sendable
<1>3. \A c \in Sockets : AsksOf(c) = {Mine(c, k) : k \in DOMAIN channels[c]}
  BY DEF AsksOf, Mine, Interest
<1> HIDE DEF Due
<1>4. ASSUME m \in PS!Owed(batch, coll, custom)
      PROVE  \E c \in Sockets : \E k \in DOMAIN channels[c] : \E i \in DOMAIN batch :
             /\ m = Note(c, k, i, DataOf(channels[c][k], batch[i], custom)) /\ socket[c] # "lost"
             /\ <<i, channels[c][k]>> \in Sendable(batch, coll, custom)
  <2>1. PICK c \in Sockets \ LostBar : \E p \in AsksOf(c) \X (DOMAIN batch) : Due(c, p[1], p[2])
    BY <1>1, <1>4
  <2>2. PICK a \in AsksOf(c), i \in DOMAIN batch : Due(c, a, i)
    BY <2>1
  <2>3. PICK k \in DOMAIN channels[c] : a = Mine(c, k)
    BY <1>3, <2>2
  <2>4. socket[c] # "lost"
    BY DEF LostBar
  <2> QED BY <1>2, <2>2, <2>3, <2>4
<1>5. ASSUME NEW c \in Sockets, NEW k \in DOMAIN channels[c], NEW i \in DOMAIN batch,
             m = Note(c, k, i, DataOf(channels[c][k], batch[i], custom)), socket[c] # "lost",
             <<i, channels[c][k]>> \in Sendable(batch, coll, custom)
      PROVE  m \in PS!Owed(batch, coll, custom)
  <2>1. Due(c, Mine(c, k), i)
    BY <1>2, <1>5
  <2>2. c \in Sockets \ LostBar /\ Mine(c, k) \in AsksOf(c)
    BY <1>3, <1>5 DEF LostBar
  <2>3. PICK p \in AsksOf(c) \X (DOMAIN batch) : p = <<Mine(c, k), i>>
    BY <2>2
  <2>4. Due(c, p[1], p[2])
    BY <2>1, <2>3
  <2> QED BY <1>1, <2>2, <2>4
<1> QED BY <1>4, <1>5

\* What publish hands to the sockets.
LEMMA SentIs ==
  ASSUME IInv, NEW batch, NEW coll, NEW custom, NEW reached \in SUBSET Hits(batch, coll),
         mail' = Messages(batch, reached, custom), NEW m
  PROVE  m \in mail' <=>
           \E c \in Sockets : \E k \in DOMAIN channels[c] : \E i \in DOMAIN batch :
             /\ m = Note(c, k, i, DataOf(channels[c][k], batch[i], custom)) /\ socket[c] # "lost"
             /\ <<i, channels[c][k]>> \in reached
<1>1. m \in mail' <=> \E p \in reached : \E t \in subs[p[2]].clients :
        /\ socket[t[1]] = "open"
        /\ m = Note(t[1], t[2], p[1], DataOf(p[2], batch[p[1]], custom))
  BY DEF Messages, Note, DataOf
<1>2. ASSUME m \in mail'
      PROVE  \E c \in Sockets : \E k \in DOMAIN channels[c] : \E i \in DOMAIN batch :
               /\ m = Note(c, k, i, DataOf(channels[c][k], batch[i], custom)) /\ socket[c] # "lost"
               /\ <<i, channels[c][k]>> \in reached
  <2>1. PICK p \in reached : \E t \in subs[p[2]].clients :
          socket[t[1]] = "open" /\ m = Note(t[1], t[2], p[1], DataOf(p[2], batch[p[1]], custom))
    BY <1>1, <1>2
  <2>2. PICK t \in subs[p[2]].clients :
          socket[t[1]] = "open" /\ m = Note(t[1], t[2], p[1], DataOf(p[2], batch[p[1]], custom))
    BY <2>1
  <2>3. PICK i \in DOMAIN batch, ch \in DOMAIN subs : p = <<i, ch>>
    BY DEF Hits
  <2>4. PICK c \in Sockets : \E k \in Calls(c, ch) : t = <<c, k>>
    BY <2>2, <2>3, ClientIsCall DEF IInv
  <2>5. PICK k \in DOMAIN channels[c] : channels[c][k] = ch /\ t = <<c, k>>
    BY <2>4 DEF Calls
  <2>6. /\ m = Note(c, k, i, DataOf(channels[c][k], batch[i], custom)) /\ socket[c] # "lost"
        /\ <<i, channels[c][k]>> \in reached
    BY <2>2, <2>3, <2>5
  <2> QED BY <2>6
<1>3. ASSUME NEW c \in Sockets, NEW k \in DOMAIN channels[c], NEW i \in DOMAIN batch,
             m = Note(c, k, i, DataOf(channels[c][k], batch[i], custom)), socket[c] # "lost",
             <<i, channels[c][k]>> \in reached
      PROVE  m \in mail'
  <2>1. PICK ch \in DOMAIN subs : ch = channels[c][k]
    BY DEF IInv, RegisteredExactly
  <2>2. <<c, k>> \in subs[ch].clients
    BY <2>1, ClientIsCall DEF IInv, Calls
  <2>3. socket[c] = "open"
    <3>1. channels[c] # <<>>
      BY DEF IInv, RegisteredExactly
    <3>2. c \in Live
      BY <3>1 DEF IInv, RegisteredExactly
    <3> QED BY <1>3, <3>2 DEF Live
  <2>4. PICK p \in reached : p = <<i, ch>>
    BY <1>3, <2>1
  <2>5. PICK t \in subs[p[2]].clients : t = <<c, k>>
    BY <2>2, <2>4
  <2>6. socket[t[1]] = "open" /\ m = Note(t[1], t[2], p[1], DataOf(p[2], batch[p[1]], custom))
    BY <1>3, <2>1, <2>3, <2>4, <2>5
  <2> QED BY <1>1, <2>6
<1> QED BY <1>2, <1>3

\* A publish call sends what is owed, up to the first pair that raises.
LEMMA PublishStep ==
  ASSUME IInv, Publish
  PROVE  PS!Publish
<1>1. PICK batch \in Batches, coll \in Collections, custom \in BOOLEAN :
        /\ mail' = Messages(batch, {p \in Hits(batch, coll) :
                                      \A q \in Failing(batch, coll, custom) : Before(p, q)}, custom)
        /\ raised' = (Failing(batch, coll, custom) # {})
        /\ UNCHANGED <<subs, nextChannel, socket, channels>>
  BY Zenon DEF Publish, Failing
<1>2. PICK reached \in SUBSET Hits(batch, coll) :
        reached = {p \in Hits(batch, coll) : \A q \in Failing(batch, coll, custom) : Before(p, q)}
  OBVIOUS
<1>3. \A m : m \in mail' <=>
           \E c \in Sockets : \E k \in DOMAIN channels[c] : \E i \in DOMAIN batch :
             /\ m = Note(c, k, i, DataOf(channels[c][k], batch[i], custom)) /\ socket[c] # "lost"
             /\ <<i, channels[c][k]>> \in reached
  BY <1>1, <1>2, SentIs
<1>4. \A m : m \in PS!Owed(batch, coll, custom) <=>
           \E c \in Sockets : \E k \in DOMAIN channels[c] : \E i \in DOMAIN batch :
             /\ m = Note(c, k, i, DataOf(channels[c][k], batch[i], custom)) /\ socket[c] # "lost"
             /\ <<i, channels[c][k]>> \in Sendable(batch, coll, custom)
  BY OwedIs
<1>5. \A i : i \in PS!Broken(batch, coll, custom)
             <=> \E ch \in DOMAIN subs : i \in DOMAIN batch /\ <<i, ch>> \in Failing(batch, coll, custom)
  BY BrokenIs
<1>6. DOMAIN batch \subseteq Nat /\ batch \in PS!Batches /\ DOMAIN subs \subseteq Nat
  BY DEF Batches, PS!Batches, IInv, TypeOK
<1>7. \A q \in Failing(batch, coll, custom) : \E i \in DOMAIN batch, ch \in DOMAIN subs : q = <<i, ch>>
  BY DEF Failing, Hits, CannotTell
<1>8. ASSUME NEW p \in reached PROVE p \in Sendable(batch, coll, custom)
  <2>1. PICK i \in DOMAIN batch, ch \in DOMAIN subs : p = <<i, ch>>
    BY DEF Hits
  <2>2. i \in Nat /\ ch \in Nat
    BY <1>6
  <2>3. ~Before(p, p)
    BY <2>1, <2>2 DEF Before
  <2> QED BY <1>2, <2>3 DEF Sendable
<1>9. mail' \subseteq PS!Owed(batch, coll, custom)
  <2> SUFFICES ASSUME NEW m \in mail' PROVE m \in PS!Owed(batch, coll, custom)
    OBVIOUS
  <2>1. PICK c \in Sockets : \E k \in DOMAIN channels[c] : \E i \in DOMAIN batch :
             /\ m = Note(c, k, i, DataOf(channels[c][k], batch[i], custom)) /\ socket[c] # "lost"
             /\ <<i, channels[c][k]>> \in reached
    BY <1>3
  <2>2. PICK k \in DOMAIN channels[c], i \in DOMAIN batch :
             /\ m = Note(c, k, i, DataOf(channels[c][k], batch[i], custom)) /\ socket[c] # "lost"
             /\ <<i, channels[c][k]>> \in reached
    BY <2>1
  <2>3. <<i, channels[c][k]>> \in Sendable(batch, coll, custom)
    BY <1>8, <2>2
  <2> QED BY <1>4, <2>2, <2>3
<1>10. raised' = (PS!Broken(batch, coll, custom) # {})
  <2>1. ASSUME NEW q \in Failing(batch, coll, custom) PROVE PS!Broken(batch, coll, custom) # {}
    <3>1. PICK i \in DOMAIN batch, ch \in DOMAIN subs : q = <<i, ch>>
      BY <1>7
    <3> QED BY <1>5, <3>1
  <2>2. ASSUME NEW i \in PS!Broken(batch, coll, custom) PROVE Failing(batch, coll, custom) # {}
    BY <1>5
  <2> QED BY <1>1, <2>1, <2>2
<1>11. ASSUME NEW i \in PS!Broken(batch, coll, custom), NEW m \in mail' PROVE m.index <= i
  <2>1. PICK ch \in DOMAIN subs : i \in DOMAIN batch /\ <<i, ch>> \in Failing(batch, coll, custom)
    BY <1>5
  <2>2. PICK c \in Sockets : \E k \in DOMAIN channels[c] : \E j \in DOMAIN batch :
             /\ m = Note(c, k, j, DataOf(channels[c][k], batch[j], custom))
             /\ <<j, channels[c][k]>> \in reached
    BY <1>3
  <2>3. PICK k \in DOMAIN channels[c], j \in DOMAIN batch :
             /\ m = Note(c, k, j, DataOf(channels[c][k], batch[j], custom))
             /\ <<j, channels[c][k]>> \in reached
    BY <2>2
  <2>4. Before(<<j, channels[c][k]>>, <<i, ch>>)
    BY <1>2, <2>1, <2>3
  <2>5. m.index = j /\ j \in Nat /\ i \in Nat
    BY <1>6, <2>1, <2>3 DEF Note
  <2> QED BY <2>4, <2>5 DEF Before
<1>12. ASSUME NEW m \in PS!Owed(batch, coll, custom) \ mail'
       PROVE  \E i \in PS!Broken(batch, coll, custom) : i <= m.index
  <2>1. PICK c \in Sockets : \E k \in DOMAIN channels[c] : \E j \in DOMAIN batch :
             /\ m = Note(c, k, j, DataOf(channels[c][k], batch[j], custom)) /\ socket[c] # "lost"
             /\ <<j, channels[c][k]>> \in Sendable(batch, coll, custom)
    BY <1>4
  <2>2. PICK k \in DOMAIN channels[c], j \in DOMAIN batch :
             /\ m = Note(c, k, j, DataOf(channels[c][k], batch[j], custom)) /\ socket[c] # "lost"
             /\ <<j, channels[c][k]>> \in Sendable(batch, coll, custom)
    BY <2>1
  <2>3. <<j, channels[c][k]>> \in Hits(batch, coll) /\ <<j, channels[c][k]>> \notin reached
    BY <1>3, <2>2 DEF Sendable
  <2>4. PICK q \in Failing(batch, coll, custom) : ~Before(<<j, channels[c][k]>>, q)
    BY <1>2, <2>3
  <2>5. PICK i \in DOMAIN batch, ch \in DOMAIN subs : q = <<i, ch>>
    BY <1>7
  <2>6. i \in PS!Broken(batch, coll, custom)
    BY <1>5, <2>5
  <2>7. m.index = j /\ j \in Nat /\ i \in Nat
    BY <1>6, <2>2 DEF Note
  <2>8. i <= j
    BY <2>4, <2>5, <2>7 DEF Before
  <2> QED BY <2>6, <2>7, <2>8
<1>13. AsksBar' = AsksBar /\ LostBar' = LostBar
  BY <1>1, SameInterests DEF AsksBar, LostBar
<1> QED BY <1>6, <1>9, <1>10, <1>11, <1>12, <1>13 DEF PS!Publish, AsksBar, LostBar

\* Both callbacks that subscribe add one interest to a handler that has its peer.
LEMMA OpenAsks ==
  ASSUME IInv, NEW c \in Sockets, OpenOn(c)
  PROVE  PS!Ask(c)
<1>1. socket \in [Sockets -> {"closed", "open", "lost"}]
  BY DEF IInv, TypeOK
<1>2. socket[c] # "lost" /\ socket'[c] = "open" /\ \A d \in Sockets : d # c => socket'[d] = socket[d]
  BY <1>1 DEF OpenOn
<1> QED BY <1>2, AddAsks DEF OpenOn

LEMMA MessageAsks ==
  ASSUME IInv, NEW c \in Sockets, OnMessage(c)
  PROVE  PS!Ask(c)
BY AddAsks DEF OnMessage

\* Before any connection the service knows no interest.
LEMMA InitBar == Init => PS!Init
<1> SUFFICES ASSUME Init PROVE PS!Init
  OBVIOUS
<1>1. AsksBar = [c \in Sockets |-> {}]
  BY DEF Init, AsksBar, AsksOf
<1>2. LostBar = {} /\ mail = {} /\ raised = FALSE
  BY DEF Init, LostBar
<1> QED BY <1>1, <1>2 DEF PS!Init, AsksBar, LostBar

\* Every step of the manager is a step of the service or leaves what the service shows alone.
LEMMA NextBar == IInv /\ [Next]_vars => [PS!Next]_PS!vars
<1> SUFFICES ASSUME IInv, [Next]_vars PROVE [PS!Next]_PS!vars
  OBVIOUS
<1>1. ASSUME NEW c \in Sockets, OpenBare(c) \/ OpenOn(c) \/ OnMessage(c) \/ Lose(c) \/ OnClose(c)
      PROVE  PS!Next
  BY <1>1, OpenBareStep, OpenAsks, MessageAsks, LoseStep, CloseAsks DEF PS!Next
<1>2. CASE Publish
  BY <1>2, PublishStep DEF PS!Next
<1>3. CASE UNCHANGED vars
  <2>1. AsksBar' = AsksBar /\ LostBar' = LostBar /\ mail' = mail /\ raised' = raised
    BY <1>3 DEF vars, AsksBar, AsksOf, LostBar
  <2> QED BY <2>1 DEF PS!vars, AsksBar, LostBar
<1> QED BY <1>1, <1>2, <1>3 DEF Next

\* The manager implements the service: shared channels, reference counts and the removal of
\* closed handlers show to a client only in that the filter of whoever stated an interest first
\* decides what all who share it are sent, and that any client's filter or conditions may end a
\* publish call.
THEOREM ImplementsService == Spec => ImplementsPubSub
BY SpecIInv, InitBar, NextBar, PTL DEF Spec, ImplementsPubSub, PS!Spec
=============================================================================
