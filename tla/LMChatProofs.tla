---------------------------- MODULE LMChatProofs ----------------------------
(***************************************************************************)
(* Safety of LMChat for any set of calls and any number of reloads.        *)
(*                                                                         *)
(* What is inductive says whose entry is in the registry (Entries), what   *)
(* the tasks on their way to the page will find there (Mail), how far each *)
(* call has come (Progressed) and that one queue does not give an id twice *)
(* (IdsAreFresh).                                                           *)
(***************************************************************************)
EXTENDS LMChat, TLAPS

Keys == {Local(c) : c \in Calls} \cup {Server(n) : n \in Nat}
EntryType == [key : Keys, value : Calls \cup {Undefined}]

Ids == Nat \cup {NoId}
ReplyType == [type : {"reply"}, call : Calls, id : Ids]
PushType == [type : {"push"}, id : Ids, from : Calls, ok : BOOLEAN]

DataOK ==
  /\ TypeOK
  /\ pending \in Seq(EntryType)
  /\ inbox \in Seq(ReplyType \cup PushType)
  /\ resets \in Nat

UniqueKeys(m) == \A i, j \in DOMAIN m : m[i].key = m[j].key => i = j

IsReply(m, c) == m.type = "reply" /\ m.call = c
IsPush(m, c) == m.type = "push" /\ m.from = c

(* The result of a call is still to be pushed or on its way to the page.     *)
Coming(c) == c \in pushed \ early => \E i \in DOMAIN inbox : IsPush(inbox[i], c)

(* An entry is either the page's, while its call waits for the answer of     *)
(* lm_chat_start, or the host's, once that has been processed; its promise   *)
(* is not settled, and its result is still to come.                          *)
EntryOK(e) ==
  /\ \/ e.value \in Calls /\ e.key = Local(e.value) /\ js[e.value] = "calling"
     \/ /\ e.key.of = "host"
        /\ e.value \in Calls => e.key = Server(rid[e.value]) /\ js[e.value] = "returned"
  /\ e.value \in Calls => answer[e.value] = NoAnswer /\ Coming(e.value)

Entries == UniqueKeys(pending) /\ \A e \in ToSet(pending) : EntryOK(e)

(* A reply finds its call waiting, and comes once; a push carries the id of   *)
(* its call and, unless it is early, comes after the reply.                   *)
MailAt(i, c) ==
  /\ IsReply(inbox[i], c) =>
       /\ host[c] = "replied" /\ js[c] = "calling"
       /\ inbox[i].id = rid[c]
       /\ \A j \in DOMAIN inbox : IsReply(inbox[j], c) => j = i
  /\ IsPush(inbox[i], c) =>
       /\ c \in pushed
       /\ inbox[i].id # NoId => inbox[i].id = rid[c]
       /\ c \notin early =>
            /\ inbox[i].id = rid[c]
            /\ js[c] = "calling" => \E j \in DOMAIN inbox : j < i /\ IsReply(inbox[j], c)

Mail == \A i \in DOMAIN inbox : \A c \in Calls : MailAt(i, c)

Progressed ==
  \A c \in Calls :
    /\ js[c] = "idle" => host[c] = "no" /\ answer[c] = NoAnswer
    /\ host[c] \in {"sent", "submitted", "refused"} => js[c] = "calling"
    /\ rid[c] # NoId => host[c] \in {"submitted", "replied"}
    /\ js[c] = "returned" => rid[c] # NoId
    /\ c \in pushed \ early => host[c] = "replied"
    /\ js[c] = "calling" => Coming(c)
    /\ js[c] = "calling" /\ host[c] = "replied" =>
         \E i \in DOMAIN inbox : IsReply(inbox[i], c)

(* Before the first unload the one queue counts up.                           *)
IdsAreFresh ==
  resets = 0 =>
    /\ engine \in {"none", "loaded"}
    /\ engine = "none" => \A c \in Calls : rid[c] = NoId
    /\ \A c \in Calls : rid[c] # NoId =>
         rid[c] < nextId /\ \A d \in Calls : rid[d] = rid[c] => d = c

ChatInv == DataOK /\ Entries /\ Mail /\ Progressed /\ IdsAreFresh /\ AnswerIsOwn

-----------------------------------------------------------------------------
(* The Map of the page.                                                      *)

LEMMA KeysDiffer ==
  /\ \A c \in Calls : Local(c).of = "page" /\ Local(c).call = c
  /\ \A n : Server(n).of = "host" /\ Server(n).id = n
  BY DEF Local, Server

LEMMA RemoveAtIs ==
  ASSUME NEW S, NEW s \in Seq(S), NEW k \in 1..Len(s)
  PROVE  /\ RemoveAt(s, k) \in Seq(S)
         /\ Len(RemoveAt(s, k)) = Len(s) - 1
         /\ \A i \in 1..Len(s) - 1 : RemoveAt(s, k)[i] = IF i < k THEN s[i] ELSE s[i + 1]
<1> DEFINE a == SubSeq(s, 1, k - 1)
           b == SubSeq(s, k + 1, Len(s))
<1>1. k \in Nat /\ Len(s) \in Nat /\ 1 <= k /\ k <= Len(s)
  OBVIOUS
<1>2. a \in Seq(S) /\ Len(a) = k - 1 /\ \A i \in 1..k - 1 : a[i] = s[i]
  BY <1>1
<1>3. b \in Seq(S) /\ Len(b) = Len(s) - k /\ \A i \in 1..Len(s) - k : b[i] = s[k + i]
  BY <1>1
<1>4. RemoveAt(s, k) = a \o b
  BY DEF RemoveAt
<1> HIDE DEF a, b
<1>5. a \o b \in Seq(S) /\ Len(a \o b) = Len(s) - 1
  <2>0. a \in Seq(S) /\ b \in Seq(S)
    BY <1>2, <1>3
  <2>1. a \o b \in Seq(S) /\ Len(a \o b) = Len(a) + Len(b)
    BY <2>0
  <2>2. Len(a) = k - 1
    BY <1>2
  <2>3. Len(b) = Len(s) - k
    BY <1>3
  <2>4. (k - 1) + (Len(s) - k) = Len(s) - 1
    BY <1>1
  <2> QED
    BY <2>1, <2>2, <2>3, <2>4
<1>6. ASSUME NEW i \in 1..Len(s) - 1
      PROVE  (a \o b)[i] = IF i < k THEN s[i] ELSE s[i + 1]
  <2>1. CASE i < k
    BY <1>1, <1>2, <1>3, <2>1
  <2>2. CASE ~(i < k)
    <3>1. i - (k - 1) \in 1..Len(s) - k /\ i \in 1..Len(s) - 1
      BY <1>1, <2>2
    <3>2. (a \o b)[i] = b[i - (k - 1)]
      BY <1>1, <1>2, <1>3, <2>2, <3>1
    <3>3. k + (i - (k - 1)) = i + 1
      BY <1>1, <3>1
    <3>4. b[i - (k - 1)] = s[i + 1]
      BY <1>3, <3>1, <3>3
    <3> QED
      BY <2>2, <3>2, <3>4
  <2> QED
    BY <2>1, <2>2
<1> QED
  BY <1>4, <1>5, <1>6

(* Map.delete: the key is gone, and nothing else has changed.                *)
LEMMA WithoutIs ==
  ASSUME pending \in Seq(EntryType), UniqueKeys(pending), NEW k
  PROVE  /\ Without(k) \in Seq(EntryType)
         /\ UniqueKeys(Without(k))
         /\ \A e \in ToSet(Without(k)) : e \in ToSet(pending) /\ e.key # k
<1>1. CASE ~Has(k)
  BY <1>1 DEF Without, Has, ToSet
<1>2. CASE Has(k)
  <2>1. PICK p \in DOMAIN pending : p = CHOOSE i \in DOMAIN pending : pending[i].key = k
    BY <1>2 DEF Has
  <2>2. pending[p].key = k
    BY <1>2, <2>1 DEF Has
  <2>3. p \in 1..Len(pending)
    BY <2>1
  <2> DEFINE m == Without(k)
  <2>4. m = RemoveAt(pending, p)
    BY <1>2, <2>1 DEF Without
  <2>5. /\ m \in Seq(EntryType)
        /\ Len(m) = Len(pending) - 1
        /\ \A i \in 1..Len(pending) - 1 : m[i] = IF i < p THEN pending[i] ELSE pending[i + 1]
    BY <2>3, <2>4, RemoveAtIs
  <2> HIDE DEF m
  <2>6. \A i \in DOMAIN m : \E j \in DOMAIN pending :
           m[i] = pending[j] /\ j # p /\ j = IF i < p THEN i ELSE i + 1
    <3> TAKE i \in DOMAIN m
    <3>1. i \in 1..Len(pending) - 1 /\ i \in Nat /\ Len(pending) \in Nat /\ p \in Nat
      BY <2>3, <2>5
    <3>2. CASE i < p
      BY <2>5, <3>1, <3>2
    <3>3. CASE ~(i < p)
      <4>1. i + 1 \in DOMAIN pending /\ i + 1 # p
        BY <3>1, <3>3
      <4> QED
        BY <2>5, <3>1, <3>3, <4>1
    <3> QED
      BY <3>2, <3>3
  <2>7. \A e \in ToSet(m) : e \in ToSet(pending) /\ e.key # k
    BY <2>1, <2>2, <2>6 DEF ToSet, UniqueKeys
  <2>8. UniqueKeys(m)
    <3> SUFFICES ASSUME NEW i \in DOMAIN m, NEW j \in DOMAIN m, m[i].key = m[j].key
                 PROVE  i = j
      BY DEF UniqueKeys
    <3>1. PICK x \in DOMAIN pending : m[i] = pending[x] /\ x # p /\ x = IF i < p THEN i ELSE i + 1
      BY <2>6
    <3>2. PICK y \in DOMAIN pending : m[j] = pending[y] /\ y # p /\ y = IF j < p THEN j ELSE j + 1
      BY <2>6
    <3>3. x = y
      BY <3>1, <3>2 DEF UniqueKeys
    <3>4. i \in Nat /\ j \in Nat /\ p \in Nat
      BY <2>3, <2>5
    <3> QED
      BY <3>1, <3>2, <3>3, <3>4
  <2> QED
    BY <2>5, <2>7, <2>8 DEF m
<1> QED
  BY <1>1, <1>2

(* Map.set: the key has the value, and nothing else has changed.             *)
LEMMA WithIs ==
  ASSUME NEW m \in Seq(EntryType), UniqueKeys(m), NEW k \in Keys,
         NEW v \in Calls \cup {Undefined}
  PROVE  /\ With(m, k, v) \in Seq(EntryType)
         /\ UniqueKeys(With(m, k, v))
         /\ \A e \in ToSet(With(m, k, v)) :
              e = [key |-> k, value |-> v] \/ (e \in ToSet(m) /\ e.key # k)
<1> DEFINE new == [key |-> k, value |-> v]
           w == With(m, k, v)
<1>0. new \in EntryType /\ new.key = k
  BY DEF EntryType
<1>1. CASE \E i \in DOMAIN m : m[i].key = k
  <2>1. w = [i \in DOMAIN m |-> IF m[i].key = k THEN new ELSE m[i]]
    BY <1>1 DEF With
  <2>2. DOMAIN m = 1..Len(m) /\ Len(m) \in Nat /\ \A i \in DOMAIN m : m[i] \in EntryType
    OBVIOUS
  <2> HIDE DEF new, w
  <2>3. w \in Seq(EntryType) /\ DOMAIN w = DOMAIN m
    BY <1>0, <2>1, <2>2
  <2>4. \A i \in DOMAIN m : w[i].key = m[i].key /\ (w[i] = new \/ (w[i] = m[i] /\ m[i].key # k))
    BY <1>0, <2>1
  <2>5. UniqueKeys(w)
    BY <2>3, <2>4 DEF UniqueKeys
  <2>6. \A e \in ToSet(w) : e = new \/ (e \in ToSet(m) /\ e.key # k)
    BY <2>3, <2>4 DEF ToSet
  <2> QED
    BY <2>3, <2>5, <2>6 DEF w, new
<1>2. CASE ~\E i \in DOMAIN m : m[i].key = k
  <2>1. w = Append(m, new)
    BY <1>2 DEF With
  <2> HIDE DEF new, w
  <2>2. /\ w \in Seq(EntryType)
        /\ Len(w) = Len(m) + 1
        /\ \A i \in 1..Len(m) : w[i] = m[i]
        /\ w[Len(m) + 1] = new
    BY <1>0, <2>1
  <2>3. \A i \in DOMAIN w : (i \in DOMAIN m /\ w[i] = m[i]) \/ (i = Len(m) + 1 /\ w[i] = new)
    BY <2>2
  <2>4. UniqueKeys(w)
    BY <1>0, <1>2, <2>3 DEF UniqueKeys
  <2>5. \A e \in ToSet(w) : e = new \/ (e \in ToSet(m) /\ e.key # k)
    BY <1>2, <2>3 DEF ToSet
  <2> QED
    BY <2>2, <2>4, <2>5 DEF w, new
<1> QED
  BY <1>1, <1>2

(* What cancelAll leaves: the entries after the first n.                     *)
LEMMA SuffixIs ==
  ASSUME pending \in Seq(EntryType), UniqueKeys(pending), NEW n \in 0..Len(pending)
  PROVE  LET m == SubSeq(pending, n + 1, Len(pending)) IN
         /\ m \in Seq(EntryType)
         /\ UniqueKeys(m)
         /\ \A e \in ToSet(m) : \E j \in DOMAIN pending : j > n /\ e = pending[j]
<1> DEFINE m == SubSeq(pending, n + 1, Len(pending))
<1>1. n \in Nat /\ Len(pending) \in Nat /\ n <= Len(pending)
  OBVIOUS
<1>2. m \in Seq(EntryType) /\ Len(m) = Len(pending) - n
      /\ \A i \in 1..Len(pending) - n : m[i] = pending[n + i]
  BY <1>1
<1> HIDE DEF m
<1>3. \A i \in DOMAIN m : i \in Nat /\ n + i \in DOMAIN pending /\ n + i > n /\ m[i] = pending[n + i]
  BY <1>1, <1>2
<1>4. UniqueKeys(m)
  <2> SUFFICES ASSUME NEW i \in DOMAIN m, NEW j \in DOMAIN m, m[i].key = m[j].key
               PROVE  i = j
    BY DEF UniqueKeys
  <2>1. n + i = n + j
    BY <1>3 DEF UniqueKeys
  <2> QED
    BY <1>1, <1>3, <2>1
<1>5. \A e \in ToSet(m) : \E j \in DOMAIN pending : j > n /\ e = pending[j]
  BY <1>3 DEF ToSet
<1> QED
  BY <1>2, <1>4, <1>5 DEF m

LEMMA EntriesTyped ==
  ASSUME NEW m \in Seq(EntryType)
  PROVE  \A i \in DOMAIN m : m[i] \in EntryType /\ m[i].value \in Calls \cup {Undefined}
<1>1. \A i \in DOMAIN m : m[i] \in EntryType
  OBVIOUS
<1> QED
  BY <1>1 DEF EntryType

LEMMA ValueIs ==
  ASSUME NEW k, Has(k)
  PROVE  \E e \in ToSet(pending) : e.key = k /\ e.value = Value(k)
  BY DEF Has, Value, ToSet

-----------------------------------------------------------------------------
(* The initial states.                                                       *)

LEMMA ChatInit == Init => ChatInv
<1> SUFFICES ASSUME Init PROVE ChatInv
  OBVIOUS
<1> USE ChatAssumption DEF Init
<1>1. pending = <<>> /\ inbox = <<>> /\ DOMAIN pending = {} /\ DOMAIN inbox = {}
  OBVIOUS
<1>2. DataOK
  <2>1. pending \in Seq(EntryType) /\ inbox \in Seq(ReplyType \cup PushType)
    BY <1>1
  <2> QED
    BY <1>1, <2>1 DEF DataOK, TypeOK
<1>3. Entries
  BY <1>1 DEF Entries, UniqueKeys, ToSet
<1>4. Mail
  BY <1>1 DEF Mail
<1>5. Progressed
  BY DEF Progressed, Coming
<1>6. IdsAreFresh
  BY DEF IdsAreFresh
<1>7. AnswerIsOwn
  BY DEF AnswerIsOwn
<1> QED
  BY <1>2, <1>3, <1>4, <1>5, <1>6, <1>7 DEF ChatInv

-----------------------------------------------------------------------------
(* What the actions have in common.                                          *)

(* An id once given to two calls stays given to both.                        *)
LEMMA SharedStays ==
  ASSUME ChatInv, resets' \in Nat, resets' >= resets,
         \A c \in Calls : rid[c] # NoId => rid'[c] = rid[c],
         answer' = answer
  PROVE  AnswerIsOwn'
<1> SUFFICES ASSUME NEW c \in Calls, answer'[c] \in Calls
             PROVE  answer'[c] = c \/ IdShared(c, answer[c])'
  BY DEF AnswerIsOwn
<1>1. answer[c] \in Calls /\ answer'[c] = answer[c]
  OBVIOUS
<1>2. answer[c] = c \/ IdShared(c, answer[c])
  BY <1>1 DEF ChatInv, AnswerIsOwn
<1>3. resets \in Nat
  BY DEF ChatInv, DataOK
<1> QED
  BY <1>1, <1>2, <1>3 DEF IdShared

(* Who touches none of the page, its mail and the calls keeps what is known  *)
(* about them.                                                               *)
LEMMA QuietKeeps ==
  ASSUME ChatInv, UNCHANGED <<page, host, rid, pushed, early, inbox>>
  PROVE  Entries' /\ Mail' /\ Progressed'
<1> USE DEF ChatInv, page
<1>1. Entries'
  BY DEF Entries, UniqueKeys, EntryOK, Coming
<1>2. Mail'
  BY DEF Mail, MailAt
<1>3. Progressed'
  BY DEF Progressed, Coming
<1> QED
  BY <1>1, <1>2, <1>3

LEMMA QuietStep ==
  ASSUME ChatInv,
         \/ \E n \in cancels : HostCancel(n)
         \/ Load \/ BeginReset \/ HangReset \/ SpuriousWake \/ EndReset \/ Worker
  PROVE  ChatInv'
<1>1. UNCHANGED <<page, host, rid, pushed, early, inbox>>
  BY DEF HostCancel, Load, BeginReset, HangReset, SpuriousWake, EndReset, Worker
<1>2. Entries' /\ Mail' /\ Progressed'
  BY <1>1, QuietKeeps
<1>3. /\ cancels' \subseteq cancels
      /\ nextId' \in Nat
      /\ engine' \in {"none", "loaded", "resetting", "hung"}
      /\ resets' \in Nat /\ resets' >= resets
  <2> USE DEF ChatInv, DataOK, TypeOK
  <2>1. CASE \E n \in cancels : HostCancel(n)
    BY <2>1 DEF HostCancel
  <2>2. CASE Load
    BY <2>2 DEF Load
  <2>3. CASE BeginReset
    BY <2>3 DEF BeginReset
  <2>4. CASE EndReset
    BY <2>4 DEF EndReset
  <2>5. CASE Worker
    BY <2>5 DEF Worker
  <2>6. CASE HangReset \/ SpuriousWake
    BY <2>6 DEF HangReset, SpuriousWake
  <2> QED
    BY <2>1, <2>2, <2>3, <2>4, <2>5, <2>6
<1>4. DataOK'
  <2>1. TypeOK'
    BY <1>1, <1>3 DEF ChatInv, DataOK, TypeOK, page
  <2> QED
    BY <1>1, <1>3, <2>1 DEF ChatInv, DataOK, page
<1>5. AnswerIsOwn'
  BY <1>1, <1>3, SharedStays DEF page
<1>6. IdsAreFresh'
  <2> USE DEF ChatInv, DataOK, TypeOK, IdsAreFresh
  <2>1. CASE \E n \in cancels : HostCancel(n)
    BY <2>1 DEF HostCancel
  <2>2. CASE Load
    BY <2>2 DEF Load
  <2>3. CASE BeginReset
    BY <2>3 DEF BeginReset
  <2>4. CASE EndReset
    BY <2>4 DEF EndReset
  <2>5. CASE Worker
    BY <2>5 DEF Worker
  <2>6. CASE HangReset \/ SpuriousWake
    BY <2>6 DEF HangReset, SpuriousWake
  <2> QED
    BY <2>1, <2>2, <2>3, <2>4, <2>5, <2>6
<1> QED
  BY <1>2, <1>4, <1>5, <1>6 DEF ChatInv

-----------------------------------------------------------------------------
(* The page.                                                                 *)

LEMMA ChatStep ==
  ASSUME ChatInv, NEW c \in Calls, Chat(c)
  PROVE  ChatInv'
<1> USE DEF ChatInv
<1>1. /\ js[c] = "idle" /\ js' = [js EXCEPT ![c] = "calling"]
      /\ host' = [host EXCEPT ![c] = "sent"]
      /\ pending' = With(pending, Local(c), c)
      /\ UNCHANGED <<answer, rid, nextId, engine, resets, cancels, pushed, early, inbox>>
  BY DEF Chat
<1>2. host[c] = "no" /\ answer[c] = NoAnswer /\ rid[c] = NoId /\ c \notin pushed \ early
  BY <1>1 DEF Progressed
<1>3. /\ js'[c] = "calling" /\ host'[c] = "sent"
      /\ \A d \in Calls : d # c => js'[d] = js[d] /\ host'[d] = host[d]
  BY <1>1 DEF DataOK, TypeOK
<1>4. /\ pending' \in Seq(EntryType)
      /\ UniqueKeys(pending')
      /\ \A e \in ToSet(pending') : e = [key |-> Local(c), value |-> c] \/ e \in ToSet(pending)
  <2>1. Local(c) \in Keys
    BY DEF Keys
  <2> QED
    BY <1>1, <2>1, WithIs DEF DataOK, Entries
<1>5. DataOK'
  <2>1. \A i \in DOMAIN pending' : pending'[i].value \in Calls \cup {Undefined}
    BY <1>4, EntriesTyped
  <2>2. TypeOK'
    BY <1>1, <2>1 DEF DataOK, TypeOK
  <2> QED
    BY <1>1, <1>4, <2>2 DEF DataOK
<1>6. Entries'
  <2>1. \A d \in Calls : Coming(d) => Coming(d)'
    BY <1>1 DEF Coming
  <2>2. Coming(c)'
    BY <1>1, <1>2 DEF Coming
  <2>3. ASSUME NEW e \in ToSet(pending') PROVE EntryOK(e)'
    <3>1. CASE e = [key |-> Local(c), value |-> c]
      BY <1>1, <1>2, <1>3, <2>2, <3>1 DEF EntryOK
    <3>2. CASE e \in ToSet(pending)
      <4>1. EntryOK(e)
        BY <3>2 DEF Entries
      <4>2. e.value # c
        BY <1>1, <4>1 DEF EntryOK
      <4> QED
        BY <1>1, <1>3, <2>1, <4>1, <4>2 DEF EntryOK
    <3> QED
      BY <1>4, <3>1, <3>2
  <2> QED
    BY <1>4, <2>3 DEF Entries
<1>7. Mail'
  <2> SUFFICES ASSUME NEW i \in DOMAIN inbox, NEW d \in Calls PROVE MailAt(i, d)'
    BY <1>1 DEF Mail
  <2>1. MailAt(i, d)
    BY DEF Mail
  <2>2. CASE d = c
    BY <1>1, <1>2, <1>3, <2>1, <2>2 DEF MailAt
  <2>3. CASE d # c
    BY <1>1, <1>3, <2>1, <2>3 DEF MailAt
  <2> QED
    BY <2>2, <2>3
<1>8. Progressed'
  BY <1>1, <1>2, <1>3 DEF Progressed, Coming
<1>9. IdsAreFresh'
  BY <1>1 DEF IdsAreFresh
<1>10. AnswerIsOwn'
  BY <1>1, SharedStays DEF DataOK
<1> QED
  BY <1>5, <1>6, <1>7, <1>8, <1>9, <1>10

(* The first task of the page's inbox, and those that stay.                  *)
LEMMA InboxIs ==
  ASSUME DataOK, inbox # <<>>, inbox' = Tail(inbox)
  PROVE  /\ inbox' \in Seq(ReplyType \cup PushType)
         /\ 1 \in DOMAIN inbox /\ Head(inbox) = inbox[1]
         /\ \A i \in DOMAIN inbox' :
              i \in Nat /\ i + 1 \in DOMAIN inbox /\ inbox'[i] = inbox[i + 1]
         /\ \A i \in DOMAIN inbox : i # 1 =>
              i \in Nat /\ i - 1 \in DOMAIN inbox' /\ inbox'[i - 1] = inbox[i]
  BY DEF DataOK

(* A task that has been posted behind the others.                            *)
LEMMA PostedIs ==
  ASSUME DataOK, NEW m \in ReplyType \cup PushType, inbox' = Append(inbox, m)
  PROVE  /\ inbox' \in Seq(ReplyType \cup PushType)
         /\ \E n \in DOMAIN inbox' :
              /\ inbox'[n] = m
              /\ DOMAIN inbox' = DOMAIN inbox \cup {n}
              /\ \A i \in DOMAIN inbox : i < n /\ inbox'[i] = inbox[i]
<1>1. inbox \in Seq(ReplyType \cup PushType) /\ Len(inbox) \in Nat
  BY DEF DataOK
<1> DEFINE n == Len(inbox) + 1
<1>2. /\ inbox' \in Seq(ReplyType \cup PushType)
      /\ n \in DOMAIN inbox' /\ inbox'[n] = m
      /\ DOMAIN inbox' = 1..n
      /\ \A i \in DOMAIN inbox : inbox'[i] = inbox[i]
  BY <1>1
<1>3. DOMAIN inbox = 1..Len(inbox) /\ 1..n = (1..Len(inbox)) \cup {n}
  BY <1>1
<1>4. \A i \in DOMAIN inbox : i < n
  BY <1>1, <1>3
<1> QED
  BY <1>2, <1>3, <1>4

(* The answer of lm_chat_start.                                              *)
LEMMA ReplyStep ==
  ASSUME ChatInv, Receive, Reply(Head(inbox))
  PROVE  ChatInv'
<1> USE DEF ChatInv
<1>1. /\ inbox # <<>> /\ inbox' = Tail(inbox)
      /\ UNCHANGED <<answer, host, rid, nextId, engine, resets, cancels, pushed, early>>
  BY DEF Receive, Reply
<1>2. /\ inbox' \in Seq(ReplyType \cup PushType)
      /\ 1 \in DOMAIN inbox /\ Head(inbox) = inbox[1]
      /\ \A i \in DOMAIN inbox' : i \in Nat /\ i + 1 \in DOMAIN inbox /\ inbox'[i] = inbox[i + 1]
      /\ \A i \in DOMAIN inbox : i # 1 =>
           i \in Nat /\ i - 1 \in DOMAIN inbox' /\ inbox'[i - 1] = inbox[i]
  BY <1>1, InboxIs
<1> DEFINE m == inbox[1]
<1>3. PICK c \in Calls : m.call = c /\ m.type = "reply" /\ IsReply(m, c) /\ m.id \in Ids
  <2>1. m \in ReplyType \cup PushType /\ m.type = "reply"
    BY <1>2 DEF DataOK, Reply
  <2>2. m \in ReplyType
    BY <2>1 DEF PushType
  <2> QED
    BY <2>1, <2>2 DEF ReplyType, IsReply
<1>4. Reply(m)
  BY <1>2
<1>5. /\ host[c] = "replied" /\ js[c] = "calling" /\ m.id = rid[c]
      /\ \A j \in DOMAIN inbox : IsReply(inbox[j], c) => j = 1
  BY <1>2, <1>3 DEF Mail, MailAt
<1>6. \A d \in Calls : ~IsPush(m, d)
  BY <1>3 DEF IsPush
<1> HIDE DEF m
<1>7. \A d \in Calls : d # c => js'[d] = js[d]
  BY <1>3, <1>4 DEF Reply, DataOK, TypeOK
<1>8. js' \in [Calls -> {"idle", "calling", "returned", "thrown"}]
      /\ js'[c] = IF m.id = NoId THEN "thrown" ELSE "returned"
  BY <1>3, <1>4 DEF Reply, DataOK, TypeOK
<1>9. \A d \in Calls : Coming(d) => Coming(d)'
  <2> SUFFICES ASSUME NEW d \in Calls, d \in pushed \ early,
                      NEW i \in DOMAIN inbox, IsPush(inbox[i], d)
               PROVE  \E j \in DOMAIN inbox' : IsPush(inbox'[j], d)
    BY <1>1 DEF Coming
  <2>1. i # 1
    BY <1>6 DEF m
  <2> QED
    BY <1>2, <2>1
<1>10. /\ pending' \in Seq(EntryType)
       /\ UniqueKeys(pending')
       /\ \A e \in ToSet(pending') :
            \/ e \in ToSet(pending) /\ e.key # Local(c)
            \/ /\ m.id # NoId
               /\ e.key = Server(m.id)
               /\ e.value = Undefined \/ (e.value = c /\ answer[c] = NoAnswer)
  <2> DEFINE rest == Without(Local(c))
  <2>1. /\ rest \in Seq(EntryType) /\ UniqueKeys(rest)
        /\ \A e \in ToSet(rest) : e \in ToSet(pending) /\ e.key # Local(c)
    BY WithoutIs DEF DataOK, Entries
  <2>2. CASE m.id = NoId
    BY <1>3, <1>4, <2>1, <2>2 DEF Reply
  <2>3. CASE m.id # NoId
    <3> DEFINE v == IF Has(Local(c)) THEN Value(Local(c)) ELSE Undefined
    <3>1. v = Undefined \/ (v = c /\ answer[c] = NoAnswer)
      <4>1. CASE Has(Local(c))
        <5>1. PICK e \in ToSet(pending) : e.key = Local(c) /\ e.value = v
          BY <4>1, ValueIs
        <5>2. EntryOK(e) /\ e.key.of = "page" /\ e.key.call = c
          BY <5>1, KeysDiffer DEF Entries
        <5>3. e.value \in Calls /\ e.key = Local(e.value) /\ answer[e.value] = NoAnswer
          BY <5>2 DEF EntryOK
        <5>4. e.value = c
          BY <5>2, <5>3, KeysDiffer
        <5> QED
          BY <5>1, <5>3, <5>4
      <4> QED
        BY <4>1
    <3>2. v \in Calls \cup {Undefined}
      BY <3>1
    <3>3. Server(m.id) \in Keys
      BY <1>3, <2>3 DEF Keys, Ids
    <3>4. pending' = With(rest, Server(m.id), v)
      BY <1>3, <1>4, <2>3 DEF Reply
    <3> HIDE DEF v, rest
    <3>5. /\ pending' \in Seq(EntryType) /\ UniqueKeys(pending')
          /\ \A e \in ToSet(pending') :
               e = [key |-> Server(m.id), value |-> v] \/ e \in ToSet(rest)
      BY <2>1, <3>2, <3>3, <3>4, WithIs
    <3> QED
      BY <2>1, <2>3, <3>1, <3>5
  <2> QED
    BY <2>2, <2>3
<1>11. DataOK'
  <2>1. \A i \in DOMAIN pending' : pending'[i].value \in Calls \cup {Undefined}
    BY <1>10, EntriesTyped
  <2>2. TypeOK'
    BY <1>1, <1>8, <2>1 DEF DataOK, TypeOK
  <2> QED
    BY <1>1, <1>2, <1>10, <2>2 DEF DataOK
<1>12. Entries'
  <2> SUFFICES ASSUME NEW e \in ToSet(pending') PROVE EntryOK(e)'
    BY <1>10 DEF Entries
  <2>1. CASE e \in ToSet(pending) /\ e.key # Local(c)
    <3>1. EntryOK(e)
      BY <2>1 DEF Entries
    <3>2. e.value # c
      BY <1>5, <2>1, <3>1 DEF EntryOK
    <3> QED
      BY <1>1, <1>7, <1>9, <3>1, <3>2 DEF EntryOK
  <2>2. CASE /\ m.id # NoId
             /\ e.key = Server(m.id)
             /\ e.value = Undefined \/ (e.value = c /\ answer[c] = NoAnswer)
    <3>1. e.key.of = "host"
      BY <2>2, KeysDiffer
    <3>2. Coming(c)'
      BY <1>5, <1>9 DEF Progressed
    <3> QED
      BY <1>1, <1>5, <1>8, <2>2, <3>1, <3>2, ChatAssumption DEF EntryOK
  <2> QED
    BY <1>10, <2>1, <2>2
<1>13. Mail'
  <2> SUFFICES ASSUME NEW i \in DOMAIN inbox', NEW d \in Calls PROVE MailAt(i, d)'
    BY DEF Mail
  <2>1. i \in Nat /\ i + 1 \in DOMAIN inbox /\ i + 1 # 1 /\ inbox'[i] = inbox[i + 1]
    BY <1>2
  <2>2. MailAt(i + 1, d)
    BY <2>1 DEF Mail
  <2>3. ASSUME IsReply(inbox'[i], d)
        PROVE  /\ host'[d] = "replied" /\ js'[d] = "calling"
               /\ inbox'[i].id = rid'[d]
               /\ \A j \in DOMAIN inbox' : IsReply(inbox'[j], d) => j = i
    <3>1. d # c
      BY <1>5, <2>1, <2>3
    <3>2. ASSUME NEW j \in DOMAIN inbox', IsReply(inbox'[j], d) PROVE j = i
      <4>1. j \in Nat /\ j + 1 \in DOMAIN inbox /\ inbox'[j] = inbox[j + 1]
        BY <1>2
      <4>2. j + 1 = i + 1
        BY <2>1, <2>2, <2>3, <3>2, <4>1 DEF MailAt
      <4> QED
        BY <2>1, <4>1, <4>2
    <3> QED
      BY <1>1, <1>7, <2>1, <2>2, <2>3, <3>1, <3>2 DEF MailAt
  <2>4. ASSUME IsPush(inbox'[i], d)
        PROVE  /\ d \in pushed'
               /\ inbox'[i].id # NoId => inbox'[i].id = rid'[d]
               /\ d \notin early' => inbox'[i].id = rid'[d]
    BY <1>1, <2>1, <2>2, <2>4 DEF MailAt
  <2>5. ASSUME IsPush(inbox'[i], d), d \notin early', js'[d] = "calling"
        PROVE  \E j \in DOMAIN inbox' : j < i /\ IsReply(inbox'[j], d)
    <3>1. d # c /\ js[d] = "calling"
      BY <1>7, <1>8, <2>5
    <3>2. PICK j \in DOMAIN inbox : j < i + 1 /\ IsReply(inbox[j], d)
      BY <1>1, <2>1, <2>2, <2>5, <3>1 DEF MailAt
    <3>3. j # 1
      BY <1>3, <3>1, <3>2 DEF IsReply, m
    <3>4. j \in Nat /\ j - 1 \in DOMAIN inbox' /\ inbox'[j - 1] = inbox[j]
      BY <1>2, <3>3
    <3>5. j - 1 < i
      BY <2>1, <3>2, <3>4
    <3> QED
      BY <3>2, <3>4, <3>5
  <2> QED
    BY <2>3, <2>4, <2>5 DEF MailAt
<1>14. Progressed'
  <2> SUFFICES ASSUME NEW d \in Calls
               PROVE  (/\ js[d] = "idle" => host[d] = "no" /\ answer[d] = NoAnswer
                       /\ host[d] \in {"sent", "submitted", "refused"} => js[d] = "calling"
                       /\ rid[d] # NoId => host[d] \in {"submitted", "replied"}
                       /\ js[d] = "returned" => rid[d] # NoId
                       /\ d \in pushed \ early => host[d] = "replied"
                       /\ js[d] = "calling" => Coming(d)
                       /\ js[d] = "calling" /\ host[d] = "replied" =>
                            \E i \in DOMAIN inbox : IsReply(inbox[i], d))'
    BY DEF Progressed
  <2>1. CASE d = c
    BY <1>1, <1>5, <1>8, <2>1 DEF Progressed
  <2>2. CASE d # c
    <3>1. ASSUME js'[d] = "calling", host'[d] = "replied"
          PROVE  \E i \in DOMAIN inbox' : IsReply(inbox'[i], d)
      <4>1. PICK i \in DOMAIN inbox : IsReply(inbox[i], d)
        BY <1>1, <1>7, <2>2, <3>1 DEF Progressed
      <4>2. i # 1
        BY <1>3, <2>2, <4>1 DEF IsReply, m
      <4> QED
        BY <1>2, <4>1, <4>2
    <3> QED
      BY <1>1, <1>7, <1>9, <2>2, <3>1 DEF Progressed
  <2> QED
    BY <2>1, <2>2
<1>15. IdsAreFresh'
  BY <1>1 DEF IdsAreFresh
<1>16. AnswerIsOwn'
  BY <1>1, SharedStays DEF DataOK
<1> QED
  BY <1>11, <1>12, <1>13, <1>14, <1>15, <1>16

(* What a push does to the registry: no entry of its id is left that still    *)
(* waits, the promise of the entry it found was not settled, and it is        *)
(* settled with the text of a call of the same id.                            *)
LEMMA ResultIs ==
  ASSUME ChatInv, NEW m \in PushType, Result(m), NEW c \in Calls, m.from = c,
         m.id # NoId => m.id = rid[c]
  PROVE  /\ pending' \in Seq(EntryType)
         /\ UniqueKeys(pending')
         /\ \A e \in ToSet(pending') :
              /\ e \in ToSet(pending)
              /\ e.key = Server(m.id) => e.value \notin Calls
              /\ e.value \in Calls => answer'[e.value] = answer[e.value]
         /\ answer' \in [Calls -> Calls \cup {Failed, NoAnswer}]
         /\ js' = js
         /\ \A v \in Calls : answer'[v] # answer[v] =>
              /\ answer[v] = NoAnswer
              /\ js[v] = "returned"
              /\ answer'[v] \in Calls => answer'[v] = c /\ rid[v] = rid[c] /\ rid[v] # NoId
<1> USE DEF ChatInv
<1> DEFINE k == Server(m.id)
<1>0. answer \in [Calls -> Calls \cup {Failed, NoAnswer}]
  BY DEF DataOK, TypeOK
<1>1. CASE Has(k) /\ Value(k) # Undefined
  <2>1. PICK x \in ToSet(pending) : x.key = k /\ x.value = Value(k)
    BY <1>1, ValueIs
  <2> DEFINE v == Value(k)
  <2>2. x \in EntryType
    BY DEF DataOK, ToSet
  <2>3. v \in Calls /\ EntryOK(x) /\ x.key.of = "host"
    BY <1>1, <2>1, <2>2, KeysDiffer DEF EntryType, Entries
  <2>4. js[v] = "returned" /\ answer[v] = NoAnswer /\ Server(rid[v]) = Server(m.id)
    BY <2>1, <2>3, KeysDiffer DEF EntryOK, Local
  <2>5. rid[v] = m.id
    <3>1. Server(rid[v]).id = rid[v] /\ Server(m.id).id = m.id
      BY KeysDiffer
    <3> QED
      BY <2>4, <3>1
  <2>6. rid[v] # NoId
    BY <2>3, <2>4 DEF Progressed
  <2>7. answer' = [answer EXCEPT ![v] = IF m.ok THEN m.from ELSE Failed] /\ pending' = Without(k)
    BY <1>1 DEF Result
  <2>8. js' = js
    BY DEF Result
  <2>9. /\ pending' \in Seq(EntryType) /\ UniqueKeys(pending')
        /\ \A e \in ToSet(pending') : e \in ToSet(pending) /\ e.key # k
    BY <2>7, WithoutIs DEF DataOK, Entries
  <2>10. ASSUME NEW e \in ToSet(pending'), e.value \in Calls
         PROVE  e.value # v
    <3>1. EntryOK(e) /\ e.key # k
      BY <2>9 DEF Entries
    <3> QED
      BY <2>4, <2>5, <2>10, <3>1 DEF EntryOK
  <2>11. /\ answer' \in [Calls -> Calls \cup {Failed, NoAnswer}]
         /\ \A d \in Calls : d # v => answer'[d] = answer[d]
         /\ answer'[v] \in {c, Failed}
    BY <1>0, <2>3, <2>7
  <2> HIDE DEF v, k
  <2>12. \A d \in Calls : answer'[d] # answer[d] =>
              /\ answer[d] = NoAnswer
              /\ js[d] = "returned"
              /\ answer'[d] \in Calls => answer'[d] = c /\ rid[d] = rid[c] /\ rid[d] # NoId
    BY <2>3, <2>4, <2>5, <2>6, <2>11, ChatAssumption
  <2> QED
    BY <2>8, <2>9, <2>10, <2>11, <2>12 DEF k
<1>2. CASE ~(Has(k) /\ Value(k) # Undefined)
  <2>1. answer' = answer /\ pending' = pending /\ js' = js
    BY <1>2 DEF Result
  <2>2. ASSUME NEW e \in ToSet(pending), e.key = k
        PROVE  e.value \notin Calls
    <3>1. Has(k)
      BY <2>2 DEF Has, ToSet
    <3>2. PICK x \in ToSet(pending) : x.key = k /\ x.value = Undefined
      BY <1>2, <3>1, ValueIs
    <3>3. x = e
      BY <2>2, <3>2 DEF Entries, UniqueKeys, ToSet
    <3> QED
      BY <3>2, <3>3, ChatAssumption
  <2> QED
    BY <1>0, <2>1, <2>2 DEF DataOK, Entries
<1> QED
  BY <1>1, <1>2

LEMMA ResultStep ==
  ASSUME ChatInv, Receive, Result(Head(inbox))
  PROVE  ChatInv' /\ \A c \in Calls : answer[c] # NoAnswer => answer'[c] = answer[c]
<1> USE DEF ChatInv
<1>1. /\ inbox # <<>> /\ inbox' = Tail(inbox)
      /\ UNCHANGED <<host, rid, nextId, engine, resets, cancels, pushed, early>>
  BY DEF Receive
<1>2. /\ inbox' \in Seq(ReplyType \cup PushType)
      /\ 1 \in DOMAIN inbox /\ Head(inbox) = inbox[1]
      /\ \A i \in DOMAIN inbox' : i \in Nat /\ i + 1 \in DOMAIN inbox /\ inbox'[i] = inbox[i + 1]
      /\ \A i \in DOMAIN inbox : i # 1 =>
           i \in Nat /\ i - 1 \in DOMAIN inbox' /\ inbox'[i - 1] = inbox[i]
  BY <1>1, InboxIs
<1> DEFINE m == inbox[1]
<1>3. PICK c \in Calls : m.from = c /\ IsPush(m, c) /\ m \in PushType
  <2>1. m \in ReplyType \cup PushType /\ m.type = "push"
    BY <1>2 DEF DataOK, Result
  <2>2. m \in PushType
    BY <2>1 DEF ReplyType
  <2> QED
    BY <2>1, <2>2 DEF PushType, IsPush
<1>4. Result(m)
  BY <1>2
<1>5. MailAt(1, c)
  BY <1>2 DEF Mail
<1>6. /\ m.id # NoId => m.id = rid[c]
      /\ c \notin early => m.id = rid[c] /\ js[c] # "calling"
  <2>1. \A j \in DOMAIN inbox : ~(j < 1)
    BY DEF DataOK
  <2> QED
    BY <1>3, <1>5, <2>1 DEF MailAt
<1>7. \A d \in Calls : ~IsReply(m, d)
  BY <1>3 DEF IsReply, IsPush
<1> HIDE DEF m
<1>8. /\ pending' \in Seq(EntryType)
      /\ UniqueKeys(pending')
      /\ \A e \in ToSet(pending') :
           /\ e \in ToSet(pending)
           /\ e.key = Server(m.id) => e.value \notin Calls
           /\ e.value \in Calls => answer'[e.value] = answer[e.value]
      /\ answer' \in [Calls -> Calls \cup {Failed, NoAnswer}]
      /\ js' = js
      /\ \A v \in Calls : answer'[v] # answer[v] =>
           /\ answer[v] = NoAnswer
           /\ js[v] = "returned"
           /\ answer'[v] \in Calls => answer'[v] = c /\ rid[v] = rid[c] /\ rid[v] # NoId
  BY <1>3, <1>4, <1>6, ResultIs
<1>9. ASSUME NEW d \in Calls, Coming(d), d # c \/ c \in early
      PROVE  Coming(d)'
  <2> SUFFICES ASSUME d \in pushed \ early
               PROVE  \E j \in DOMAIN inbox' : IsPush(inbox'[j], d)
    BY <1>1 DEF Coming
  <2>1. PICK i \in DOMAIN inbox : IsPush(inbox[i], d)
    BY <1>9 DEF Coming
  <2>2. i # 1
    BY <1>3, <1>9, <2>1 DEF IsPush, m
  <2> QED
    BY <1>2, <2>1, <2>2
<1>10. DataOK'
  <2>1. \A i \in DOMAIN pending' : pending'[i].value \in Calls \cup {Undefined}
    BY <1>8, EntriesTyped
  <2>2. TypeOK'
    BY <1>1, <1>8, <2>1 DEF DataOK, TypeOK
  <2> QED
    BY <1>1, <1>2, <1>8, <2>2 DEF DataOK
<1>11. Entries'
  <2> SUFFICES ASSUME NEW e \in ToSet(pending') PROVE EntryOK(e)'
    BY <1>8 DEF Entries
  <2>1. EntryOK(e)
    BY <1>8 DEF Entries
  <2>2. ASSUME e.value \in Calls PROVE Coming(e.value)'
    <3>1. CASE e.value # c \/ c \in early
      BY <1>9, <2>1, <2>2, <3>1 DEF EntryOK
    <3>2. CASE e.value = c /\ c \notin early
      <4>1. e.key = Server(m.id)
        BY <1>6, <2>1, <3>2 DEF EntryOK
      <4> QED
        BY <1>8, <2>2, <4>1
    <3> QED
      BY <3>1, <3>2
  <2> QED
    BY <1>1, <1>8, <2>1, <2>2 DEF EntryOK
<1>12. Mail'
  <2> SUFFICES ASSUME NEW i \in DOMAIN inbox', NEW d \in Calls PROVE MailAt(i, d)'
    BY DEF Mail
  <2>1. i \in Nat /\ i + 1 \in DOMAIN inbox /\ i + 1 # 1 /\ inbox'[i] = inbox[i + 1]
    BY <1>2
  <2>2. MailAt(i + 1, d)
    BY <2>1 DEF Mail
  <2>3. ASSUME IsReply(inbox'[i], d)
        PROVE  /\ host'[d] = "replied" /\ js'[d] = "calling"
               /\ inbox'[i].id = rid'[d]
               /\ \A j \in DOMAIN inbox' : IsReply(inbox'[j], d) => j = i
    <3>1. ASSUME NEW j \in DOMAIN inbox', IsReply(inbox'[j], d) PROVE j = i
      <4>1. j \in Nat /\ j + 1 \in DOMAIN inbox /\ inbox'[j] = inbox[j + 1]
        BY <1>2
      <4>2. j + 1 = i + 1
        BY <2>1, <2>2, <2>3, <3>1, <4>1 DEF MailAt
      <4> QED
        BY <2>1, <4>1, <4>2
    <3> QED
      BY <1>1, <1>8, <2>1, <2>2, <2>3, <3>1 DEF MailAt
  <2>4. ASSUME IsPush(inbox'[i], d)
        PROVE  /\ d \in pushed'
               /\ inbox'[i].id # NoId => inbox'[i].id = rid'[d]
               /\ d \notin early' => inbox'[i].id = rid'[d]
    BY <1>1, <2>1, <2>2, <2>4 DEF MailAt
  <2>5. ASSUME IsPush(inbox'[i], d), d \notin early', js'[d] = "calling"
        PROVE  \E j \in DOMAIN inbox' : j < i /\ IsReply(inbox'[j], d)
    <3>1. PICK j \in DOMAIN inbox : j < i + 1 /\ IsReply(inbox[j], d)
      BY <1>1, <1>8, <2>1, <2>2, <2>5 DEF MailAt
    <3>2. j # 1
      BY <1>7, <3>1 DEF m
    <3>3. j \in Nat /\ j - 1 \in DOMAIN inbox' /\ inbox'[j - 1] = inbox[j]
      BY <1>2, <3>2
    <3>4. j - 1 < i
      BY <2>1, <3>1, <3>3
    <3> QED
      BY <3>1, <3>3, <3>4
  <2> QED
    BY <2>3, <2>4, <2>5 DEF MailAt
<1>13. Progressed'
  <2> SUFFICES ASSUME NEW d \in Calls
               PROVE  (/\ js[d] = "idle" => host[d] = "no" /\ answer[d] = NoAnswer
                       /\ host[d] \in {"sent", "submitted", "refused"} => js[d] = "calling"
                       /\ rid[d] # NoId => host[d] \in {"submitted", "replied"}
                       /\ js[d] = "returned" => rid[d] # NoId
                       /\ d \in pushed \ early => host[d] = "replied"
                       /\ js[d] = "calling" => Coming(d)
                       /\ js[d] = "calling" /\ host[d] = "replied" =>
                            \E i \in DOMAIN inbox : IsReply(inbox[i], d))'
    BY DEF Progressed
  <2>1. ASSUME js'[d] = "calling", host'[d] = "replied"
        PROVE  \E i \in DOMAIN inbox' : IsReply(inbox'[i], d)
    <3>1. PICK i \in DOMAIN inbox : IsReply(inbox[i], d)
      BY <1>1, <1>8, <2>1 DEF Progressed
    <3>2. i # 1
      BY <1>7, <3>1 DEF m
    <3> QED
      BY <1>2, <3>1, <3>2
  <2>2. ASSUME js'[d] = "calling" PROVE Coming(d)'
    BY <1>6, <1>8, <1>9, <2>2 DEF Progressed
  <2>3. js'[d] = "idle" => answer'[d] = NoAnswer
    BY <1>8 DEF Progressed
  <2> QED
    BY <1>1, <1>8, <2>1, <2>2, <2>3 DEF Progressed
<1>14. IdsAreFresh'
  BY <1>1 DEF IdsAreFresh
<1>15. AnswerIsOwn'
  <2> SUFFICES ASSUME NEW v \in Calls, answer'[v] \in Calls
               PROVE  answer'[v] = v \/ IdShared(v, answer'[v])
    BY <1>1 DEF AnswerIsOwn, IdShared
  <2>1. CASE answer'[v] = answer[v]
    BY <2>1 DEF AnswerIsOwn
  <2>2. CASE answer'[v] # answer[v]
    <3>1. answer'[v] = c /\ rid[v] = rid[c] /\ rid[v] # NoId
      BY <1>8, <2>2
    <3>2. c # v => resets > 0
      BY <3>1 DEF IdsAreFresh, DataOK
    <3> QED
      BY <3>1, <3>2 DEF IdShared
  <2> QED
    BY <2>1, <2>2
<1>16. \A d \in Calls : answer[d] # NoAnswer => answer'[d] = answer[d]
  BY <1>8
<1> QED
  BY <1>10, <1>11, <1>12, <1>13, <1>14, <1>15, <1>16

(* lmCancelAll: what it rejects was not settled, and it removes all of it.    *)
LEMMA CancelAllStep ==
  ASSUME ChatInv, CancelAll
  PROVE  ChatInv' /\ \A c \in Calls : answer[c] # NoAnswer => answer'[c] = answer[c]
<1> USE DEF ChatInv
<1>1. UNCHANGED <<js, host, rid, nextId, engine, resets, pushed, early, inbox>>
  BY DEF CancelAll
<1>2. PICK n \in 0..Len(pending) :
        /\ answer' = [c \in Calls |-> IF \E i \in 1..n : pending[i].value = c
                                      THEN Failed ELSE answer[c]]
        /\ pending' = SubSeq(pending, n + 1, Len(pending))
        /\ cancels' = cancels \cup ToCancel(n)
  BY DEF CancelAll
<1>3. /\ pending' \in Seq(EntryType)
      /\ UniqueKeys(pending')
      /\ \A e \in ToSet(pending') : \E j \in DOMAIN pending : j > n /\ e = pending[j]
  BY <1>2, SuffixIs DEF DataOK, Entries
<1>4. \A i \in 1..n : i \in DOMAIN pending /\ pending[i] \in ToSet(pending)
  <2>1. pending \in Seq(EntryType) /\ n \in Nat /\ n <= Len(pending) /\ Len(pending) \in Nat
    BY <1>2 DEF DataOK
  <2>2. \A i \in 1..n : i \in DOMAIN pending
    BY <2>1
  <2> QED
    BY <2>2 DEF ToSet
<1>5. ASSUME NEW i \in 1..n, NEW j \in DOMAIN pending, j > n, pending[j].value \in Calls
      PROVE  pending[i].value # pending[j].value
  <2>1. EntryOK(pending[i]) /\ EntryOK(pending[j])
    BY <1>4 DEF Entries, ToSet
  <2>2. pending[i].value = pending[j].value => pending[i].key = pending[j].key
    BY <1>5, <2>1 DEF EntryOK
  <2>3. i # j
    BY <1>2, <1>5
  <2> QED
    BY <1>4, <2>2, <2>3 DEF Entries, UniqueKeys
<1>6. \A c \in Calls : answer'[c] # answer[c] =>
        answer[c] = NoAnswer /\ answer'[c] = Failed /\ js[c] # "idle"
  <2> SUFFICES ASSUME NEW c \in Calls, answer'[c] # answer[c]
               PROVE  answer[c] = NoAnswer /\ answer'[c] = Failed /\ js[c] # "idle"
    OBVIOUS
  <2>1. PICK i \in 1..n : pending[i].value = c
    BY <1>2
  <2>2. EntryOK(pending[i])
    BY <1>4 DEF Entries
  <2> QED
    BY <1>2, <2>1, <2>2 DEF EntryOK
<1>7. DataOK'
  <2>1. \A i \in DOMAIN pending' : pending'[i].value \in Calls \cup {Undefined}
    BY <1>3, EntriesTyped
  <2>2. answer' \in [Calls -> Calls \cup {Failed, NoAnswer}]
    BY <1>2 DEF DataOK, TypeOK
  <2>3. ToCancel(n) \subseteq Nat
    <3>1. \A i \in DOMAIN pending : pending[i].key \in Keys
      BY EntriesTyped DEF DataOK, EntryType
    <3>2. \A k \in Keys : k.of = "host" => k.id \in Nat
      BY DEF Keys, Local, Server
    <3> QED
      BY <1>4, <3>1, <3>2 DEF ToCancel
  <2>4. TypeOK'
    BY <1>1, <1>2, <2>1, <2>2, <2>3 DEF DataOK, TypeOK
  <2> QED
    BY <1>1, <1>3, <2>4 DEF DataOK
<1>8. Entries'
  <2> SUFFICES ASSUME NEW e \in ToSet(pending') PROVE EntryOK(e)'
    BY <1>3 DEF Entries
  <2>1. PICK j \in DOMAIN pending : j > n /\ e = pending[j]
    BY <1>3
  <2>2. EntryOK(e)
    BY <2>1 DEF Entries, ToSet
  <2>3. e.value \in Calls => answer'[e.value] = answer[e.value]
    BY <1>2, <1>5, <2>1
  <2> QED
    BY <1>1, <2>2, <2>3 DEF EntryOK, Coming
<1>9. Mail'
  BY <1>1 DEF Mail, MailAt
<1>10. Progressed'
  BY <1>1, <1>6 DEF Progressed, Coming
<1>11. IdsAreFresh'
  BY <1>1 DEF IdsAreFresh
<1>12. AnswerIsOwn'
  <2> SUFFICES ASSUME NEW c \in Calls, answer'[c] \in Calls
               PROVE  answer'[c] = c \/ IdShared(c, answer'[c])
    BY <1>1 DEF AnswerIsOwn, IdShared
  <2>1. answer'[c] = answer[c]
    BY <1>6, ChatAssumption
  <2> QED
    BY <2>1 DEF AnswerIsOwn
<1>13. \A c \in Calls : answer[c] # NoAnswer => answer'[c] = answer[c]
  BY <1>6
<1> QED
  BY <1>7, <1>8, <1>9, <1>10, <1>11, <1>12, <1>13

-----------------------------------------------------------------------------
(* The host.                                                                 *)

LEMMA HostSubmitStep ==
  ASSUME ChatInv, NEW c \in Calls, HostSubmit(c)
  PROVE  ChatInv'
<1> USE DEF ChatInv
<1>1. /\ host[c] = "sent" /\ engine = "loaded"
      /\ rid' = [rid EXCEPT ![c] = nextId]
      /\ nextId' = nextId + 1
      /\ host' = [host EXCEPT ![c] = "submitted"]
      /\ UNCHANGED <<js, answer, pending, engine, resets, cancels, pushed, early, inbox>>
  BY DEF HostSubmit, page
<1>2. rid[c] = NoId /\ js[c] = "calling" /\ c \notin pushed \ early
  BY <1>1 DEF Progressed
<1>3. /\ nextId \in Nat /\ nextId # NoId
      /\ rid'[c] = nextId /\ host'[c] = "submitted"
      /\ \A d \in Calls : d # c => rid'[d] = rid[d] /\ host'[d] = host[d]
  BY <1>1, ChatAssumption DEF DataOK, TypeOK
<1>4. DataOK'
  BY <1>1, <1>3 DEF DataOK, TypeOK
<1>5. Entries'
  <2> SUFFICES ASSUME NEW e \in ToSet(pending) PROVE EntryOK(e)'
    BY <1>1 DEF Entries, UniqueKeys
  <2>1. EntryOK(e)
    BY DEF Entries
  <2> QED
    BY <1>1, <1>2, <1>3, <2>1 DEF EntryOK, Coming
<1>6. Mail'
  <2> SUFFICES ASSUME NEW i \in DOMAIN inbox, NEW d \in Calls PROVE MailAt(i, d)'
    BY <1>1 DEF Mail
  <2>1. MailAt(i, d)
    BY DEF Mail
  <2>2. CASE d = c
    BY <1>1, <1>2, <1>3, <2>1, <2>2 DEF MailAt
  <2>3. CASE d # c
    BY <1>1, <1>3, <2>1, <2>3 DEF MailAt
  <2> QED
    BY <2>2, <2>3
<1>7. Progressed'
  BY <1>1, <1>2, <1>3 DEF Progressed, Coming
<1>8. IdsAreFresh'
  <2> SUFFICES ASSUME resets = 0
               PROVE  \A d \in Calls : rid'[d] # NoId =>
                        rid'[d] < nextId' /\ \A f \in Calls : rid'[f] = rid'[d] => f = d
    BY <1>1 DEF IdsAreFresh
  <2>1. \A d \in Calls : rid[d] # NoId =>
           rid[d] \in Nat /\ rid[d] < nextId /\ \A f \in Calls : rid[f] = rid[d] => f = d
    BY DEF IdsAreFresh, DataOK, TypeOK
  <2>2. \A d \in Calls : d # c /\ rid'[d] # NoId => rid'[d] \in Nat /\ rid'[d] < nextId
    BY <1>3, <2>1
  <2>3. \A d \in Calls : rid'[d] # NoId => rid'[d] < nextId'
    BY <1>1, <1>3, <2>2
  <2>4. \A d, f \in Calls : rid'[d] # NoId /\ rid'[f] = rid'[d] => f = d
    BY <1>3, <2>1, <2>2
  <2> QED
    BY <2>3, <2>4
<1>9. AnswerIsOwn'
  BY <1>1, <1>2, <1>3, SharedStays DEF DataOK
<1> QED
  BY <1>4, <1>5, <1>6, <1>7, <1>8, <1>9

LEMMA HostRefuseStep ==
  ASSUME ChatInv, NEW c \in Calls, HostRefuse(c)
  PROVE  ChatInv'
<1> USE DEF ChatInv
<1>1. /\ host[c] = "sent"
      /\ host' = [host EXCEPT ![c] = "refused"]
      /\ UNCHANGED <<js, answer, pending, rid, nextId, engine, resets, cancels, pushed, early, inbox>>
  BY DEF HostRefuse, page
<1>2. rid[c] = NoId /\ js[c] = "calling" /\ c \notin pushed \ early
  BY <1>1 DEF Progressed
<1>3. host'[c] = "refused" /\ \A d \in Calls : d # c => host'[d] = host[d]
  BY <1>1 DEF DataOK, TypeOK
<1>4. DataOK'
  BY <1>1 DEF DataOK, TypeOK
<1>5. Entries'
  BY <1>1 DEF Entries, UniqueKeys, EntryOK, Coming
<1>6. Mail'
  BY <1>1, <1>3 DEF Mail, MailAt
<1>7. Progressed'
  BY <1>1, <1>2, <1>3 DEF Progressed, Coming
<1>8. IdsAreFresh'
  BY <1>1 DEF IdsAreFresh
<1>9. AnswerIsOwn'
  BY <1>1, SharedStays DEF DataOK
<1> QED
  BY <1>4, <1>5, <1>6, <1>7, <1>8, <1>9

LEMMA HostReplyStep ==
  ASSUME ChatInv, NEW c \in Calls, HostReply(c)
  PROVE  ChatInv'
<1> USE DEF ChatInv
<1> DEFINE m == [type |-> "reply", call |-> c, id |-> rid[c]]
<1>1. /\ host[c] \in {"submitted", "refused"}
      /\ host' = [host EXCEPT ![c] = "replied"]
      /\ inbox' = Append(inbox, m)
      /\ UNCHANGED <<js, answer, pending, rid, nextId, engine, resets, cancels, pushed, early>>
  BY DEF HostReply, page
<1>2. js[c] = "calling" /\ c \notin pushed \ early
  BY <1>1 DEF Progressed
<1>3. host'[c] = "replied" /\ \A d \in Calls : d # c => host'[d] = host[d]
  BY <1>1 DEF DataOK, TypeOK
<1>4. m \in ReplyType \cup PushType
  BY DEF ReplyType, Ids, DataOK, TypeOK
<1>5. /\ IsReply(m, c) /\ m.id = rid[c]
      /\ \A d \in Calls : ~IsPush(m, d) /\ (IsReply(m, d) => d = c)
  BY DEF IsReply, IsPush
<1> HIDE DEF m
<1>6. /\ inbox' \in Seq(ReplyType \cup PushType)
      /\ \E n \in DOMAIN inbox' :
           /\ inbox'[n] = m
           /\ DOMAIN inbox' = DOMAIN inbox \cup {n}
           /\ \A i \in DOMAIN inbox : i < n /\ inbox'[i] = inbox[i]
  BY <1>1, <1>4, PostedIs
<1>7. PICK n \in DOMAIN inbox' :
        /\ inbox'[n] = m
        /\ DOMAIN inbox' = DOMAIN inbox \cup {n}
        /\ \A i \in DOMAIN inbox : i < n /\ inbox'[i] = inbox[i]
  BY <1>6
<1>8. DataOK'
  BY <1>1, <1>6 DEF DataOK, TypeOK
<1>9. \A d \in Calls : Coming(d) => Coming(d)'
  BY <1>1, <1>7 DEF Coming
<1>10. Entries'
  BY <1>1, <1>9 DEF Entries, UniqueKeys, EntryOK
<1>11. Mail'
  <2> SUFFICES ASSUME NEW i \in DOMAIN inbox', NEW d \in Calls PROVE MailAt(i, d)'
    BY DEF Mail
  <2>1. CASE i = n
    <3>1. ASSUME IsReply(inbox'[i], d), NEW j \in DOMAIN inbox', IsReply(inbox'[j], d)
          PROVE  j = i
      <4>1. d = c
        BY <1>5, <1>7, <2>1, <3>1
      <4>2. ASSUME j \in DOMAIN inbox PROVE FALSE
        <5>1. IsReply(inbox[j], c) /\ MailAt(j, c)
          BY <1>7, <3>1, <4>1, <4>2 DEF Mail
        <5> QED
          BY <1>1, <5>1 DEF MailAt
      <4> QED
        BY <1>7, <2>1, <4>2
    <3> QED
      BY <1>1, <1>2, <1>3, <1>5, <1>7, <2>1, <3>1 DEF MailAt
  <2>2. CASE i \in DOMAIN inbox
    <3>1. MailAt(i, d) /\ inbox'[i] = inbox[i]
      BY <1>7, <2>2 DEF Mail
    <3>2. ASSUME IsReply(inbox[i], d)
          PROVE  /\ host'[d] = "replied" /\ js[d] = "calling" /\ inbox[i].id = rid[d]
                 /\ \A j \in DOMAIN inbox' : IsReply(inbox'[j], d) => j = i
      <4>1. d # c
        BY <1>1, <3>1, <3>2 DEF MailAt
      <4> QED
        BY <1>3, <1>5, <1>7, <3>1, <3>2, <4>1 DEF MailAt
    <3>3. ASSUME IsPush(inbox[i], d), d \notin early, js[d] = "calling"
          PROVE  \E j \in DOMAIN inbox' : j < i /\ IsReply(inbox'[j], d)
      BY <1>7, <3>1, <3>3 DEF MailAt
    <3> QED
      BY <1>1, <3>1, <3>2, <3>3 DEF MailAt
  <2> QED
    BY <1>7, <2>1, <2>2
<1>12. Progressed'
  <2>1. ASSUME NEW d \in Calls, js'[d] = "calling", host'[d] = "replied"
        PROVE  \E i \in DOMAIN inbox' : IsReply(inbox'[i], d)
    <3>1. CASE d = c
      BY <1>5, <1>7, <3>1
    <3>2. CASE d # c
      BY <1>1, <1>3, <1>7, <2>1, <3>2 DEF Progressed
    <3> QED
      BY <3>1, <3>2
  <2> QED
    BY <1>1, <1>2, <1>3, <1>9, <2>1 DEF Progressed
<1>13. IdsAreFresh'
  BY <1>1 DEF IdsAreFresh
<1>14. AnswerIsOwn'
  BY <1>1, SharedStays DEF DataOK
<1> QED
  BY <1>8, <1>10, <1>11, <1>12, <1>13, <1>14

LEMMA PushStep ==
  ASSUME ChatInv, NEW c \in Calls, Push(c)
  PROVE  ChatInv'
<1> USE DEF ChatInv
<1> DEFINE m == [type |-> "push", id |-> rid[c], from |-> c, ok |-> outcome[c] = "value"]
<1>1. /\ c \notin pushed
      /\ pushed' = pushed \cup {c}
      /\ early' = IF host[c] = "replied" THEN early ELSE early \cup {c}
      /\ inbox' = Append(inbox, m)
      /\ UNCHANGED <<js, answer, pending, host, rid, nextId, engine, resets, cancels>>
  BY DEF Push, page
<1>2. early \subseteq pushed /\ pushed \subseteq Calls
  BY DEF DataOK, TypeOK
<1>3. /\ early' \subseteq pushed' /\ pushed' \subseteq Calls
      /\ \A d \in Calls : d # c => (d \in pushed' <=> d \in pushed) /\ (d \in early' <=> d \in early)
      /\ c \in pushed' /\ (c \notin early' => host[c] = "replied")
  BY <1>1, <1>2
<1>4. m \in ReplyType \cup PushType
  BY DEF PushType, Ids, DataOK, TypeOK
<1>5. /\ IsPush(m, c) /\ m.id = rid[c]
      /\ \A d \in Calls : ~IsReply(m, d) /\ (IsPush(m, d) => d = c)
  BY DEF IsReply, IsPush
<1> HIDE DEF m
<1>6. /\ inbox' \in Seq(ReplyType \cup PushType)
      /\ \E n \in DOMAIN inbox' :
           /\ inbox'[n] = m
           /\ DOMAIN inbox' = DOMAIN inbox \cup {n}
           /\ \A i \in DOMAIN inbox : i < n /\ inbox'[i] = inbox[i]
  BY <1>1, <1>4, PostedIs
<1>7. PICK n \in DOMAIN inbox' :
        /\ inbox'[n] = m
        /\ DOMAIN inbox' = DOMAIN inbox \cup {n}
        /\ \A i \in DOMAIN inbox : i < n /\ inbox'[i] = inbox[i]
  BY <1>6
<1>8. DataOK'
  BY <1>1, <1>3, <1>6 DEF DataOK, TypeOK
<1>9. \A d \in Calls : Coming(d) => Coming(d)'
  <2> SUFFICES ASSUME NEW d \in Calls, Coming(d), d \in pushed' \ early'
               PROVE  \E i \in DOMAIN inbox' : IsPush(inbox'[i], d)
    BY DEF Coming
  <2>1. CASE d = c
    BY <1>5, <1>7, <2>1
  <2>2. CASE d # c
    BY <1>3, <1>7, <2>2 DEF Coming
  <2> QED
    BY <2>1, <2>2
<1>10. Entries'
  BY <1>1, <1>9 DEF Entries, UniqueKeys, EntryOK
<1>11. Mail'
  <2> SUFFICES ASSUME NEW i \in DOMAIN inbox', NEW d \in Calls PROVE MailAt(i, d)'
    BY DEF Mail
  <2>1. CASE i = n
    <3>1. ASSUME c \notin early', js[c] = "calling"
          PROVE  \E j \in DOMAIN inbox' : j < i /\ IsReply(inbox'[j], c)
      <4>1. PICK j \in DOMAIN inbox : IsReply(inbox[j], c)
        BY <1>3, <3>1 DEF Progressed
      <4> QED
        BY <1>7, <2>1, <4>1
    <3> QED
      BY <1>1, <1>3, <1>5, <1>7, <2>1, <3>1 DEF MailAt
  <2>2. CASE i \in DOMAIN inbox
    <3>1. MailAt(i, d) /\ inbox'[i] = inbox[i]
      BY <1>7, <2>2 DEF Mail
    <3>2. ASSUME IsReply(inbox[i], d)
          PROVE  \A j \in DOMAIN inbox' : IsReply(inbox'[j], d) => j = i
      BY <1>5, <1>7, <3>1, <3>2 DEF MailAt
    <3>3. ASSUME IsPush(inbox[i], d)
          PROVE  d # c
      BY <1>1, <3>1, <3>3 DEF MailAt
    <3>4. ASSUME IsPush(inbox[i], d), d \notin early', js[d] = "calling"
          PROVE  \E j \in DOMAIN inbox' : j < i /\ IsReply(inbox'[j], d)
      BY <1>3, <1>7, <3>1, <3>3, <3>4 DEF MailAt
    <3> QED
      BY <1>1, <1>3, <3>1, <3>2, <3>3, <3>4 DEF MailAt
  <2> QED
    BY <1>7, <2>1, <2>2
<1>12. Progressed'
  <2>1. ASSUME NEW d \in Calls, js'[d] = "calling", host'[d] = "replied"
        PROVE  \E i \in DOMAIN inbox' : IsReply(inbox'[i], d)
    BY <1>1, <1>7, <2>1 DEF Progressed
  <2>2. \A d \in Calls : d \in pushed' \ early' => host'[d] = "replied"
    BY <1>1, <1>3 DEF Progressed
  <2> QED
    BY <1>1, <1>9, <2>1, <2>2 DEF Progressed
<1>13. IdsAreFresh'
  BY <1>1 DEF IdsAreFresh
<1>14. AnswerIsOwn'
  BY <1>1, SharedStays DEF DataOK
<1> QED
  BY <1>8, <1>10, <1>11, <1>12, <1>13, <1>14

-----------------------------------------------------------------------------
LEMMA ChatInvStep ==
  ASSUME ChatInv, [Next]_vars
  PROVE  ChatInv' /\ \A c \in Calls : answer[c] # NoAnswer => answer'[c] = answer[c]
<1>1. CASE UNCHANGED vars
  <2>1. UNCHANGED <<page, host, rid, pushed, early, inbox, nextId, engine, resets, cancels>>
    BY <1>1 DEF vars, page
  <2>2. Entries' /\ Mail' /\ Progressed'
    BY <2>1, QuietKeeps
  <2>3. DataOK' /\ IdsAreFresh' /\ AnswerIsOwn'
    BY <2>1 DEF ChatInv, DataOK, TypeOK, IdsAreFresh, AnswerIsOwn, IdShared, page
  <2> QED
    BY <2>1, <2>2, <2>3 DEF ChatInv, page
<1>2. ASSUME NEW c \in Calls, Chat(c) \/ HostSubmit(c) \/ HostRefuse(c) \/ HostReply(c) \/ Push(c)
      PROVE  ChatInv' /\ answer' = answer
  <2>1. answer' = answer
    BY <1>2 DEF Chat, HostSubmit, HostRefuse, HostReply, Push, page
  <2> QED
    BY <1>2, <2>1, ChatStep, HostSubmitStep, HostRefuseStep, HostReplyStep, PushStep
<1>3. ASSUME \/ \E n \in cancels : HostCancel(n)
             \/ Load \/ BeginReset \/ HangReset \/ SpuriousWake \/ EndReset \/ Worker
      PROVE  ChatInv' /\ answer' = answer
  <2>1. answer' = answer
    BY <1>3 DEF HostCancel, Load, BeginReset, HangReset, SpuriousWake, EndReset, Worker, page
  <2> QED
    BY <1>3, <2>1, QuietStep
<1>4. CASE CancelAll
  BY <1>4, CancelAllStep
<1>5. CASE Receive
  <2>1. CASE Reply(Head(inbox))
    <3>1. answer' = answer
      BY <2>1 DEF Reply
    <3> QED
      BY <1>5, <2>1, <3>1, ReplyStep
  <2>2. CASE Result(Head(inbox))
    BY <1>5, <2>2, ResultStep
  <2> QED
    BY <1>5, <2>1, <2>2 DEF Receive
<1> QED
  BY <1>1, <1>2, <1>3, <1>4, <1>5 DEF Next, Progress

(* Whatever order answers, results, errors, cancellations and reloads arrive  *)
(* in, a promise resolves with the text of its own messages unless a reload   *)
(* gave its id to another request, and no entry waits for a push that has     *)
(* been delivered.                                                            *)
THEOREM RegistryIsSound == Spec => []RegistrySound
<1>1. ChatInv => RegistrySound
  <2> SUFFICES ASSUME ChatInv PROVE EntriesAreAwaited
    BY DEF ChatInv, DataOK, RegistrySound
  <2> SUFFICES ASSUME NEW e \in ToSet(pending), e.value \in Calls \ early
               PROVE  \/ e.key = Local(e.value) /\ js[e.value] = "calling"
                      \/ /\ e.key = Server(rid[e.value])
                         /\ \/ e.value \notin pushed
                            \/ \E i \in DOMAIN inbox :
                                 inbox[i].type = "push" /\ inbox[i].from = e.value
    BY DEF EntriesAreAwaited
  <2>1. EntryOK(e)
    BY DEF ChatInv, Entries
  <2> QED
    BY <2>1 DEF EntryOK, Coming, IsPush
<1> QED
  BY <1>1, ChatInit, ChatInvStep, PTL DEF Spec

(* A settled promise is never settled again.                                  *)
THEOREM PromisesSettleOnce == Spec => SettledOnce
<1>1. ChatInv /\ [Next]_vars =>
        [\A c \in Calls : answer[c] # NoAnswer => answer'[c] = answer[c]]_vars
  BY ChatInvStep
<1> QED
  BY <1>1, ChatInit, ChatInvStep, PTL DEF Spec, SettledOnce
=============================================================================
