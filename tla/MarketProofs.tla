---------------------------- MODULE MarketProofs ----------------------------
(***************************************************************************)
(* Proofs about the audit market: consent behind every deposit, funded     *)
(* work, one payment and one delivery for each reference, for any sellers, *)
(* rounds, restarts and losses of mentions.                                *)
(***************************************************************************)
EXTENDS Market, SequenceTheorems, TLAPS

-----------------------------------------------------------------------------
(***************************************************************************)
(* Mail.  Whatever a step does to an inbox, each mention in it was there   *)
(* before or came with the step, and none is doubled.                      *)
(***************************************************************************)
\* t is s without the mentions at the places gone and maybe others, and maybe
\* with one of new.
Came(t, s, new, gone) ==
  \E f \in [DOMAIN t -> Nat] :
    /\ \A i, j \in DOMAIN t : f[i] = f[j] => i = j
    /\ \A i \in DOMAIN t :
         /\ f[i] \notin gone
         /\ \/ f[i] \in DOMAIN s /\ t[i] = s[f[i]]
            \/ f[i] = 0 /\ t[i] \in new

\* The agents of S may get m.
Post(S, m) ==
  /\ inbox' \in [Agents -> Seq(Messages)]
  /\ \A b \in Agents : Came(inbox'[b], inbox[b], IF b \in S THEN {m} ELSE {}, {})

LEMMA PartOfSeq ==
  ASSUME NEW S, NEW s \in Seq(S), NEW m \in Nat, NEW n \in Nat,
         1 <= m, n <= Len(s), m <= n + 1
  PROVE  /\ SubSeq(s, m, n) \in Seq(S) /\ Len(SubSeq(s, m, n)) = n - m + 1
         /\ \A i \in 1 .. n - m + 1 : SubSeq(s, m, n)[i] = s[m + i - 1]
  <1>1. Len(s) \in Nat /\ \A i \in 1 .. Len(s) : s[i] \in S
    BY LenProperties, ElementOfSeq
  <1>2. \A i \in m .. n : s[i] \in S
    BY <1>1
  <1>3. /\ SubSeq(s, m, n) \in Seq(S)
        /\ Len(SubSeq(s, m, n)) = IF m <= n THEN n - m + 1 ELSE 0
        /\ \A i \in 1 .. n - m + 1 : SubSeq(s, m, n)[i] = s[m + i - 1]
    BY <1>2, SubSeqProperties
  <1>4. (IF m <= n THEN n - m + 1 ELSE 0) = n - m + 1
    OBVIOUS
  <1> QED BY <1>3, <1>4

\* Taking a mention out of an inbox.
LEMMA Taken ==
  ASSUME NEW S, NEW s \in Seq(S), NEW n \in DOMAIN s
  PROVE  RemoveAt(s, n) \in Seq(S) /\ Came(RemoveAt(s, n), s, {}, {n})
  <1>1. Len(s) \in Nat /\ DOMAIN s = 1 .. Len(s) /\ n \in 1 .. Len(s)
    BY LenProperties
  <1>2. PICK a : a = SubSeq(s, 1, n - 1)
    OBVIOUS
  <1>3. PICK b : b = SubSeq(s, n + 1, Len(s))
    OBVIOUS
  <1>4. a \in Seq(S) /\ Len(a) = n - 1 /\ \A i \in 1 .. n - 1 : a[i] = s[i]
    <2>1. 1 \in Nat /\ n - 1 \in Nat /\ 1 <= 1 /\ n - 1 <= Len(s) /\ 1 <= (n - 1) + 1
      BY <1>1
    <2>2. /\ SubSeq(s, 1, n - 1) \in Seq(S) /\ Len(SubSeq(s, 1, n - 1)) = (n - 1) - 1 + 1
          /\ \A i \in 1 .. (n - 1) - 1 + 1 : SubSeq(s, 1, n - 1)[i] = s[1 + i - 1]
      BY <2>1, PartOfSeq
    <2> QED BY <1>1, <1>2, <2>2
  <1>5. b \in Seq(S) /\ Len(b) = Len(s) - n /\ \A i \in 1 .. Len(s) - n : b[i] = s[n + i]
    <2>1. n + 1 \in Nat /\ 1 <= n + 1 /\ Len(s) <= Len(s) /\ n + 1 <= Len(s) + 1
      BY <1>1
    <2>2. /\ SubSeq(s, n + 1, Len(s)) \in Seq(S) /\ Len(SubSeq(s, n + 1, Len(s))) = Len(s) - (n + 1) + 1
          /\ \A i \in 1 .. Len(s) - (n + 1) + 1 : SubSeq(s, n + 1, Len(s))[i] = s[(n + 1) + i - 1]
      BY <1>1, <2>1, PartOfSeq
    <2> QED BY <1>1, <1>3, <2>2
  <1>6. PICK t : t = RemoveAt(s, n)
    OBVIOUS
  <1>7. t = a \o b
    BY <1>2, <1>3, <1>6 DEF RemoveAt
  <1>8. /\ t \in Seq(S) /\ Len(t) = Len(a) + Len(b)
        /\ \A i \in 1 .. Len(a) + Len(b) : t[i] = IF i <= Len(a) THEN a[i] ELSE b[i - Len(a)]
    BY <1>4, <1>5, <1>7, ConcatProperties
  <1>9. DOMAIN t = 1 .. Len(s) - 1
    <2>1. DOMAIN t = 1 .. Len(t)
      BY <1>8, LenProperties
    <2> QED BY <1>1, <1>4, <1>5, <1>8, <2>1
  <1>10. \A i \in DOMAIN t : t[i] = IF i < n THEN s[i] ELSE s[i + 1]
    <2> TAKE i \in DOMAIN t
    <2>1. t[i] = IF i <= n - 1 THEN a[i] ELSE b[i - (n - 1)]
      BY <1>1, <1>4, <1>5, <1>8, <1>9
    <2>2. CASE i < n
      BY <1>1, <1>4, <1>9, <2>1, <2>2
    <2>3. CASE ~ (i < n)
      <3>1. i - (n - 1) \in 1 .. Len(s) - n /\ n + (i - (n - 1)) = i + 1
        BY <1>1, <1>9, <2>3
      <3> QED BY <1>1, <1>5, <1>9, <2>1, <2>3, <3>1
    <2> QED BY <2>2, <2>3
  <1>. DEFINE f == [i \in DOMAIN t |-> IF i < n THEN i ELSE i + 1]
  <1>11. f \in [DOMAIN t -> Nat]
    BY <1>1, <1>9
  <1>12. /\ \A i, j \in DOMAIN t : f[i] = f[j] => i = j
         /\ \A i \in DOMAIN t : f[i] \in DOMAIN s /\ t[i] = s[f[i]] /\ f[i] # n
    BY <1>1, <1>9, <1>10
  <1> HIDE DEF f
  <1>13. \A i \in DOMAIN t : f[i] \notin {n} /\ f[i] \in DOMAIN s /\ t[i] = s[f[i]]
    BY <1>12
  <1> QED BY <1>6, <1>8, <1>11, <1>12, <1>13 DEF Came

LEMMA Unread ==
  ASSUME NEW S, NEW s \in Seq(S), NEW new
  PROVE  Came(s, s, new, {})
  <1>1. Len(s) \in Nat /\ DOMAIN s = 1 .. Len(s)
    BY LenProperties
  <1>. DEFINE f == [i \in DOMAIN s |-> i]
  <1>2. f \in [DOMAIN s -> Nat] /\ \A i \in DOMAIN s : f[i] = i
    BY <1>1
  <1> HIDE DEF f
  <1> QED BY <1>1, <1>2 DEF Came

LEMMA Appended ==
  ASSUME NEW S, NEW s \in Seq(S), NEW m \in S
  PROVE  Append(s, m) \in Seq(S) /\ Came(Append(s, m), s, {m}, {})
  <1>1. Len(s) \in Nat /\ DOMAIN s = 1 .. Len(s)
    BY LenProperties
  <1>2. PICK t : t = Append(s, m)
    OBVIOUS
  <1>3. /\ t \in Seq(S) /\ Len(t) = Len(s) + 1 /\ t[Len(s) + 1] = m
        /\ \A i \in 1 .. Len(s) : t[i] = s[i]
    BY <1>2, AppendProperties
  <1>4. DOMAIN t = 1 .. Len(s) + 1
    BY <1>3, LenProperties
  <1>. DEFINE f == [i \in DOMAIN t |-> IF i \in DOMAIN s THEN i ELSE 0]
  <1>5. f \in [DOMAIN t -> Nat] /\ \A i \in DOMAIN t : f[i] = IF i \in DOMAIN s THEN i ELSE 0
    BY <1>1, <1>4
  <1> HIDE DEF f
  <1>6. \A i, j \in DOMAIN t : f[i] = f[j] => i = j
    BY <1>1, <1>4, <1>5
  <1>7. \A i \in DOMAIN t : \/ f[i] \in DOMAIN s /\ t[i] = s[f[i]]
                            \/ f[i] = 0 /\ t[i] \in {m}
    BY <1>1, <1>3, <1>4, <1>5
  <1> QED BY <1>2, <1>3, <1>5, <1>6, <1>7 DEF Came

LEMMA Dropped ==
  ASSUME NEW S, NEW s \in Seq(S)
  PROVE  /\ s # <<>> => Tail(s) \in Seq(S) /\ Came(Tail(s), s, {}, {})
         /\ <<>> \in Seq(S) /\ Came(<<>>, s, {}, {})
  <1>1. ASSUME s # <<>> PROVE Tail(s) \in Seq(S) /\ Came(Tail(s), s, {}, {})
    <2>1. Len(s) \in Nat \ {0} /\ DOMAIN s = 1 .. Len(s)
      BY <1>1, EmptySeq, LenProperties
    <2>2. PICK t : t = Tail(s)
      OBVIOUS
    <2>3. t \in Seq(S) /\ Len(t) = Len(s) - 1 /\ \A i \in 1 .. Len(t) : t[i] = s[i + 1]
      BY <1>1, <2>2, HeadTailProperties
    <2>4. DOMAIN t = 1 .. Len(s) - 1
      BY <2>3, LenProperties
    <2>. DEFINE f == [i \in DOMAIN t |-> i + 1]
    <2>5. f \in [DOMAIN t -> Nat] /\ \A i \in DOMAIN t : f[i] = i + 1
      BY <2>4
    <2> HIDE DEF f
    <2>6. \A i, j \in DOMAIN t : f[i] = f[j] => i = j
      BY <2>4, <2>5
    <2>7. \A i \in DOMAIN t : f[i] \in DOMAIN s /\ t[i] = s[f[i]]
      BY <2>1, <2>3, <2>4, <2>5
    <2> QED BY <2>2, <2>3, <2>5, <2>6, <2>7 DEF Came
  <1>2. <<>> \in Seq(S) /\ DOMAIN <<>> = {}
    BY EmptySeq, LenProperties
  <1>3. Came(<<>>, s, {}, {})
    <2>. DEFINE f == [i \in {} |-> 0]
    <2>1. f \in [DOMAIN <<>> -> Nat]
      BY <1>2
    <2> QED BY <1>2, <2>1 DEF Came
  <1> QED BY <1>1, <1>2, <1>3

LEMMA LessGone ==
  ASSUME NEW t, NEW s, NEW new, NEW gone, Came(t, s, {}, gone)
  PROVE  Came(t, s, new, {})
  BY DEF Came

\* The ways in which the steps of the market change the inboxes.
LEMMA NothingPosted ==
  ASSUME TypeOK, UNCHANGED inbox, NEW S, NEW m
  PROVE  Post(S, m)
  <1>1. inbox \in [Agents -> Seq(Messages)]
    BY DEF TypeOK
  <1>2. \A b \in Agents : Came(inbox[b], inbox[b], IF b \in S THEN {m} ELSE {}, {})
    BY <1>1, Unread
  <1> QED BY <1>1, <1>2 DEF Post

LEMMA TakenAway ==
  ASSUME TypeOK, NEW a \in Agents, NEW n \in DOMAIN inbox[a], Take(a, n)
  PROVE  /\ inbox' \in [Agents -> Seq(Messages)]
         /\ Came(inbox'[a], inbox[a], {}, {n})
         /\ \A b \in Agents \ {a} : Came(inbox'[b], inbox[b], {}, {})
  <1>1. inbox \in [Agents -> Seq(Messages)]
    BY DEF TypeOK
  <1>2. inbox' = [inbox EXCEPT ![a] = RemoveAt(inbox[a], n)]
    BY DEF Take
  <1>3. RemoveAt(inbox[a], n) \in Seq(Messages) /\ Came(RemoveAt(inbox[a], n), inbox[a], {}, {n})
    BY <1>1, Taken
  <1>4. inbox'[a] = RemoveAt(inbox[a], n) /\ \A b \in Agents \ {a} : inbox'[b] = inbox[b]
    BY <1>1, <1>2
  <1>5. \A b \in Agents \ {a} : Came(inbox[b], inbox[b], {}, {})
    BY <1>1, Unread
  <1> QED BY <1>1, <1>2, <1>3, <1>4, <1>5

LEMMA TakePosts ==
  ASSUME TypeOK, NEW a \in Agents, NEW n \in DOMAIN inbox[a], Take(a, n), NEW S, NEW m
  PROVE  Post(S, m)
  <1>1. /\ inbox' \in [Agents -> Seq(Messages)]
        /\ Came(inbox'[a], inbox[a], {}, {n})
        /\ \A b \in Agents \ {a} : Came(inbox'[b], inbox[b], {}, {})
    BY TakenAway
  <1>2. \A b \in Agents : Came(inbox'[b], inbox[b], IF b \in S THEN {m} ELSE {}, {})
    <2> TAKE b \in Agents
    <2>1. CASE b = a
      BY <1>1, <2>1, LessGone
    <2>2. CASE b # a
      BY <1>1, <2>2, LessGone
    <2> QED BY <2>1, <2>2
  <1> QED BY <1>1, <1>2 DEF Post

LEMMA ReplyPosts ==
  ASSUME TypeOK, NEW a \in Agents, NEW n \in DOMAIN inbox[a], NEW b \in Agents, a # b,
         NEW m \in Messages, TakeAndReply(a, n, b, m)
  PROVE  Post({b}, m)
  <1>1. CASE Take(a, n)
    BY <1>1, TakePosts
  <1>2. CASE inbox' = [inbox EXCEPT ![a] = RemoveAt(@, n), ![b] = Append(@, m)]
    <2>1. inbox \in [Agents -> Seq(Messages)]
      BY DEF TypeOK
    <2>2. RemoveAt(inbox[a], n) \in Seq(Messages) /\ Came(RemoveAt(inbox[a], n), inbox[a], {}, {n})
      BY <2>1, Taken
    <2>3. Append(inbox[b], m) \in Seq(Messages) /\ Came(Append(inbox[b], m), inbox[b], {m}, {})
      BY <2>1, Appended
    <2>4. /\ inbox'[a] = RemoveAt(inbox[a], n) /\ inbox'[b] = Append(inbox[b], m)
          /\ \A c \in Agents \ {a, b} : inbox'[c] = inbox[c]
      BY <1>2, <2>1
    <2>5. inbox' \in [Agents -> Seq(Messages)]
      BY <1>2, <2>1, <2>2, <2>3
    <2>6. Came(inbox'[a], inbox[a], {}, {})
      BY <2>2, <2>4, LessGone
    <2>7. \A c \in Agents \ {a, b} : Came(inbox'[c], inbox[c], {}, {})
      BY <2>1, <2>4, Unread
    <2> QED BY <2>3, <2>4, <2>5, <2>6, <2>7 DEF Post
  <1> QED BY <1>1, <1>2 DEF TakeAndReply

LEMMA SendPosts ==
  ASSUME TypeOK, NEW S, NEW m \in Messages, Send(S, m)
  PROVE  Post(S, m)
  <1>1. inbox \in [Agents -> Seq(Messages)]
    BY DEF TypeOK
  <1>2. \A b \in Agents : Append(inbox[b], m) \in Seq(Messages) /\ Came(Append(inbox[b], m), inbox[b], {m}, {})
    BY <1>1, Appended
  <1>3. \A b \in Agents : Came(inbox[b], inbox[b], {}, {})
    BY <1>1, Unread
  <1> QED BY <1>1, <1>2, <1>3 DEF Send, Post

LEMMA LosePosts ==
  ASSUME TypeOK, NEW a \in Agents, NEW S, NEW m,
         \/ inbox[a] # <<>> /\ inbox' = [inbox EXCEPT ![a] = Tail(@)]
         \/ inbox' \in {inbox, [inbox EXCEPT ![a] = <<>>]}
  PROVE  Post(S, m)
  <1>1. inbox \in [Agents -> Seq(Messages)]
    BY DEF TypeOK
  <1>2. /\ inbox[a] # <<>> => Tail(inbox[a]) \in Seq(Messages) /\ Came(Tail(inbox[a]), inbox[a], {}, {})
        /\ <<>> \in Seq(Messages) /\ Came(<<>>, inbox[a], {}, {})
    BY <1>1, Dropped
  <1>3. \A b \in Agents : Came(inbox[b], inbox[b], {}, {})
    BY <1>1, Unread
  <1>4. inbox' \in [Agents -> Seq(Messages)] /\ \A b \in Agents : Came(inbox'[b], inbox[b], {}, {})
    <2>1. CASE inbox[a] # <<>> /\ inbox' = [inbox EXCEPT ![a] = Tail(@)]
      BY <1>1, <1>2, <1>3, <2>1
    <2>2. CASE inbox' = inbox
      BY <1>1, <1>3, <2>2
    <2>3. CASE inbox' = [inbox EXCEPT ![a] = <<>>]
      BY <1>1, <1>2, <1>3, <2>3
    <2> QED BY <2>1, <2>2, <2>3
  <1>5. \A b \in Agents : Came(inbox'[b], inbox[b], IF b \in S THEN {m} ELSE {}, {})
    BY <1>4, LessGone
  <1> QED BY <1>4, <1>5 DEF Post
-----------------------------------------------------------------------------
(***************************************************************************)
(* The invariant.                                                          *)
(***************************************************************************)
TermsMessage ==
  [type: {"ESCROW_REQUIRED"}, round: Rounds, reference: References,
   seller: Wallets, amount: Prices, arbitrated: BOOLEAN]

\* What the buyer knows where it is in its round.
Placed ==
  /\ pc # "sleep" => round \in Rounds
  /\ pc \notin {"sleep", "collect"} => winner \in Sellers
  /\ pc = "grant" => bids[winner] \in Prices
  /\ pc \in {"terms", "deposit"} => issue \in Issues
  /\ pc \in {"deposit", "announce", "delivery", "release"} => terms \in TermsMessage

\* Authorization i was issued to seller s for round r.
Granted(i, s, r) == deal[i] # None /\ deal[i].to = s /\ deal[i].round = r

\* A seller verified the authorization of reference k for the round of k, and
\* w is the wallet of the seller it was issued to.
Consented(k, w) ==
  /\ deal[k[1]] # None /\ deal[k[1]].round = k[2]
  /\ w = WalletOf[deal[k[1]].to]
  /\ progress[k] # "none"

\* What has happened when a mention m for agent a is around.
Backed(a, m) ==
  /\ m.type = "GRANT" => Granted(m.issue, a, m.round)
  /\ m.type = "ESCROW_REQUIRED" => Consented(m.reference, m.seller)
  /\ m.type = "DEPOSITED" => order[m.reference] # None

Mail == \A a \in Agents : \A n \in DOMAIN inbox[a] : Backed(a, inbox[a][n])

Tokens == \A s \in Sellers, r \in Rounds : grants[s][r] # None => Granted(grants[s][r], s, r)


IsDeposited(k, a, n) == inbox[a][n].type = "DEPOSITED" /\ inbox[a][n].reference = k

\* A deposit is announced once, before work on it begins.
AnnouncedOnce ==
  \A k \in References, a \in Agents : \A n \in DOMAIN inbox[a] :
    IsDeposited(k, a, n) =>
      /\ progress[k] = "verified"
      /\ \A b \in Agents : \A p \in DOMAIN inbox[b] : IsDeposited(k, b, p) => a = b /\ n = p

\* The deal of the buyer's round.
InRound ==
  /\ pc \in {"terms", "deposit"} => order[<<issue, round>>] = None
  /\ pc \in {"deposit", "announce", "delivery", "release"} => Consented(terms.reference, terms.seller)
  /\ pc = "deposit" => terms.reference = <<issue, round>>
  /\ pc = "announce" =>
       /\ order[terms.reference] # None /\ progress[terms.reference] = "verified"
       /\ \A a \in Agents : \A n \in DOMAIN inbox[a] : ~ IsDeposited(terms.reference, a, n)

\* The escrows.
Escrows ==
  \A k \in References :
    /\ order[k] # None => Consented(k, order[k].payee) /\ order[k].place # "returned"
    /\ progress[k] \in {"begun", "reported"} => order[k] # None

Jobs == \A s \in Sellers : job[s] # None => progress[job[s].reference] \in {"begun", "reported"}

IInv == TypeOK /\ Placed /\ Mail /\ Tokens /\ AnnouncedOnce /\ InRound /\ Escrows /\ Jobs /\ WorkIsFunded
-----------------------------------------------------------------------------
LEMMA MessageFacts ==
  ASSUME NEW m \in Messages
  PROVE  /\ m.round \in Rounds
         /\ m.type = "BID" => m.by \in Sellers /\ m.price \in Prices
         /\ m.type = "GRANT" => m.issue \in Issues
         /\ m.type = "ESCROW_REQUIRED" => m \in TermsMessage
         /\ m.type = "DEPOSITED" => m.reference \in References
         /\ m.type = "DELIVERED" => m.report \in Issues \cup {None}
  BY DEF Messages, TermsMessage

LEMMA MessagesMade ==
  ASSUME NEW r \in Rounds
  PROVE  /\ [type |-> "WANT", round |-> r] \in Messages
         /\ [type |-> "AWARD", round |-> r] \in Messages
         /\ \A s \in Sellers, p \in Prices : [type |-> "BID", round |-> r, by |-> s, price |-> p] \in Messages
         /\ \A i \in Issues : [type |-> "GRANT", round |-> r, issue |-> i] \in Messages
         /\ \A k \in References : [type |-> "DEPOSITED", round |-> r, reference |-> k] \in Messages
         /\ \A k \in References, w \in Wallets, p \in Prices, b \in BOOLEAN :
              [type |-> "ESCROW_REQUIRED", round |-> r, reference |-> k,
               seller |-> w, amount |-> p, arbitrated |-> b] \in Messages
         /\ \A i \in Issues \cup {None} : [type |-> "DELIVERED", round |-> r, report |-> i] \in Messages
  BY DEF Messages

\* Agents read what is in their inbox.
LEMMA ReadableFacts ==
  ASSUME TypeOK, NEW a \in Agents, NEW n \in Readable(a)
  PROVE  n \in DOMAIN inbox[a] /\ inbox[a][n] \in Messages
  <1>1. inbox[a] \in Seq(Messages)
    BY DEF TypeOK
  <1>2. n \in DOMAIN inbox[a]
    BY DEF Readable
  <1>3. DOMAIN inbox[a] = 1 .. Len(inbox[a])
    BY <1>1, LenProperties
  <1> QED BY <1>1, <1>2, <1>3, ElementOfSeq

LEMMA Names ==
  /\ Buyer \in Agents /\ Sellers \subseteq Agents /\ \A s \in Sellers : s # Buyer
  /\ \A i \in Issues, r \in Rounds : <<i, r>> \in References
  /\ \A k \in References : k = <<k[1], k[2]>> /\ k[1] \in Issues /\ k[2] \in Rounds
  /\ \A s \in Sellers : WalletOf[s] \in Wallets /\ Quotes[s] \subseteq Prices
  BY MarketAssumption DEF MarketAssumption, Agents, References, Prices
-----------------------------------------------------------------------------
(***************************************************************************)
(* Types, and the mail of each action.                                     *)
(***************************************************************************)
LEMMA WantTyped ==
  ASSUME TypeOK, Placed, Want
  PROVE  TypeOK' /\ Placed' /\ Post(Sellers, [type |-> "WANT", round |-> round'])
  <1>1. round' \in Rounds /\ MaxRound \in Nat
    BY MarketAssumption DEF MarketAssumption, Want, TypeOK, Rounds
  <1>2. Post(Sellers, [type |-> "WANT", round |-> round'])
    BY <1>1, MessagesMade, SendPosts DEF Want
  <1>3. inbox' \in [Agents -> Seq(Messages)]
    BY <1>2 DEF Post
  <1>4. TypeOK'
    BY <1>1, <1>3 DEF TypeOK, Settlement!TypeOK, Want, sellerVars, worldVars, escrowVars, faultVars, historyVars, Rounds
  <1>5. Placed'
    BY <1>1 DEF Placed, Want
  <1> QED BY <1>2, <1>4, <1>5

LEMMA CollectBidTyped ==
  ASSUME TypeOK, Placed, CollectBid, NEW S, NEW m
  PROVE  TypeOK' /\ Placed' /\ Post(S, m)
  <1>1. PICK n \in Readable(Buyer) :
          /\ Matches(inbox[Buyer][n])
          /\ bids' = [bids EXCEPT ![inbox[Buyer][n].by] = inbox[Buyer][n].price]
          /\ Take(Buyer, n)
    BY DEF CollectBid
  <1>2. n \in DOMAIN inbox[Buyer] /\ inbox[Buyer][n] \in Messages
    BY Names, ReadableFacts
  <1>3. inbox[Buyer][n].by \in Sellers /\ inbox[Buyer][n].price \in Prices
    BY <1>1, <1>2, MessageFacts DEF CollectBid, Matches, Awaited
  <1>4. Post(S, m)
    BY <1>1, <1>2, Names, TakePosts
  <1>5. inbox' \in [Agents -> Seq(Messages)]
    BY <1>4 DEF Post
  <1>6. TypeOK'
    BY <1>1, <1>3, <1>5 DEF TypeOK, Settlement!TypeOK, CollectBid, sellerVars, worldVars, escrowVars, faultVars, historyVars
  <1>7. Placed'
    BY DEF Placed, CollectBid
  <1> QED BY <1>4, <1>6, <1>7

\* The end of a round, in whatever step it comes.
LEMMA EndRoundTyped ==
  ASSUME TypeOK, EndRound, inbox' \in [Agents -> Seq(Messages)],
         Settlement!TypeOK', locked' = locked, UNCHANGED <<sellerVars, valid, faultVars, historyVars>>
  PROVE  TypeOK' /\ Placed'
  <1>1. bids' \in [Sellers -> Prices \cup {None}]
    BY DEF EndRound, Empty
  <1>2. TypeOK'
    BY <1>1 DEF TypeOK, EndRound, sellerVars, faultVars, historyVars
  <1>3. Placed'
    BY DEF Placed, EndRound
  <1> QED BY <1>2, <1>3

LEMMA RoundFailsTyped ==
  ASSUME TypeOK, NoSellers \/ RoundFails, NEW S, NEW m
  PROVE  TypeOK' /\ Placed' /\ Post(S, m) /\ pc' = "sleep"
  <1>1. EndRound /\ UNCHANGED <<inbox, sellerVars, worldVars>>
    BY DEF NoSellers, RoundFails
  <1>2. inbox' \in [Agents -> Seq(Messages)] /\ Settlement!TypeOK'
    BY <1>1 DEF TypeOK, worldVars, escrowVars, Settlement!TypeOK
  <1>3. TypeOK' /\ Placed'
    BY <1>1, <1>2, EndRoundTyped DEF worldVars, escrowVars
  <1>4. Post(S, m)
    BY <1>1, NothingPosted
  <1> QED BY <1>1, <1>3, <1>4 DEF EndRound

LEMMA AwardTyped ==
  ASSUME TypeOK, Placed, Award
  PROVE  TypeOK' /\ Placed' /\ \E S : Post(S, [type |-> "AWARD", round |-> round])
  <1>1. PICK s \in Pool : winner' = s /\ Send({s}, [type |-> "AWARD", round |-> round])
    BY DEF Award
  <1>2. s \in Sellers /\ bids[s] \in Prices /\ round \in Rounds
    BY <1>1 DEF Pool, TypeOK, Placed, Award
  <1>3. Post({s}, [type |-> "AWARD", round |-> round])
    BY <1>1, <1>2, MessagesMade, SendPosts
  <1>4. inbox' \in [Agents -> Seq(Messages)]
    BY <1>3 DEF Post
  <1>5. TypeOK'
    BY <1>1, <1>2, <1>4 DEF TypeOK, Settlement!TypeOK, Award, sellerVars, worldVars, escrowVars, faultVars, historyVars
  <1>6. Placed'
    BY <1>1, <1>2 DEF Placed, Award
  <1> QED BY <1>3, <1>5, <1>6

LEMMA GrantTyped ==
  ASSUME TypeOK, Placed, Grant
  PROVE  /\ TypeOK' /\ Placed' /\ issue' \in Issues /\ Fresh(issue')
         /\ deal' = [deal EXCEPT ![issue'] = [round |-> round, to |-> winner, price |-> bids[winner]]]
         /\ [round |-> round, to |-> winner, price |-> bids[winner]] \in Deals
         /\ Post({winner}, [type |-> "GRANT", round |-> round, issue |-> issue'])
  <1>1. PICK i \in Issues :
          /\ Fresh(i) /\ issue' = i
          /\ deal' = [deal EXCEPT ![i] = [round |-> round, to |-> winner, price |-> bids[winner]]]
          /\ valid' = valid \cup {i} \/ UNCHANGED valid
          /\ Send({winner}, [type |-> "GRANT", round |-> round, issue |-> i])
    BY DEF Grant
  <1>2. winner \in Sellers /\ bids[winner] \in Prices /\ round \in Rounds
    BY DEF Grant, Placed
  <1>3. [round |-> round, to |-> winner, price |-> bids[winner]] \in Deals
    BY <1>2 DEF Deals
  <1>4. Post({winner}, [type |-> "GRANT", round |-> round, issue |-> i])
    BY <1>1, <1>2, MessagesMade, SendPosts
  <1>5. inbox' \in [Agents -> Seq(Messages)]
    BY <1>4 DEF Post
  <1>6. TypeOK'
    BY <1>1, <1>3, <1>5 DEF TypeOK, Settlement!TypeOK, Grant, sellerVars, escrowVars, faultVars
  <1>7. Placed'
    BY <1>1, <1>2 DEF Placed, Grant
  <1> QED BY <1>1, <1>3, <1>4, <1>6, <1>7

LEMMA ReceiveTermsTyped ==
  ASSUME TypeOK, Placed, ReceiveTerms, NEW S, NEW x
  PROVE  /\ TypeOK' /\ Placed' /\ Post(S, x)
         /\ \/ pc' = "sleep"
            \/ /\ pc' = "deposit" /\ UNCHANGED <<round, issue>>
               /\ terms'.reference = <<issue, round>>
               /\ \E n \in DOMAIN inbox[Buyer] : terms' = inbox[Buyer][n]
  <1>1. PICK n \in Readable(Buyer) :
          /\ Matches(inbox[Buyer][n]) /\ Take(Buyer, n)
          /\ \/ /\ Acceptable(inbox[Buyer][n]) /\ terms' = inbox[Buyer][n]
                /\ pc' = "deposit" /\ UNCHANGED <<round, bids, winner, issue>>
             \/ EndRound
    BY DEF ReceiveTerms
  <1>2. n \in DOMAIN inbox[Buyer] /\ inbox[Buyer][n] \in Messages
    BY Names, ReadableFacts
  <1>3. inbox[Buyer][n] \in TermsMessage
    BY <1>1, <1>2, MessageFacts DEF ReceiveTerms, Matches, Awaited
  <1>4. Post(S, x)
    BY <1>1, <1>2, Names, TakePosts
  <1>5. inbox' \in [Agents -> Seq(Messages)]
    BY <1>4 DEF Post
  <1>6. UNCHANGED <<sellerVars, escrowVars, valid, faultVars, historyVars>>
    BY DEF ReceiveTerms, worldVars
  <1>7. CASE EndRound
    <2>1. Settlement!TypeOK'
      BY <1>6 DEF TypeOK, Settlement!TypeOK, escrowVars
    <2>2. TypeOK' /\ Placed'
      BY <1>5, <1>6, <1>7, <2>1, EndRoundTyped DEF escrowVars
    <2> QED BY <1>4, <1>7, <2>2 DEF EndRound
  <1>8. CASE Acceptable(inbox[Buyer][n]) /\ terms' = inbox[Buyer][n]
             /\ pc' = "deposit" /\ UNCHANGED <<round, bids, winner, issue>>
    <2>1. terms' \in {m \in Messages : m.type = "ESCROW_REQUIRED"}
      BY <1>2, <1>3, <1>8 DEF TermsMessage
    <2>2. TypeOK'
      BY <1>5, <1>6, <1>8, <2>1 DEF TypeOK, Settlement!TypeOK, sellerVars, escrowVars, faultVars, historyVars
    <2>3. Placed'
      BY <1>3, <1>8 DEF Placed, ReceiveTerms
    <2> QED BY <1>2, <1>4, <1>8, <2>2, <2>3 DEF Acceptable
  <1> QED BY <1>1, <1>7, <1>8

LEMMA DepositTyped ==
  ASSUME TypeOK, Placed, Deposit, NEW S, NEW x
  PROVE  /\ TypeOK' /\ Placed' /\ Post(S, x)
         /\ terms \in TermsMessage /\ terms.reference \in References /\ UNCHANGED <<terms, historyVars, job>>
         /\ order' = [order EXCEPT ![terms.reference] = [payee |-> terms.seller, place |-> "open"]]
         /\ [payee |-> terms.seller, place |-> "open"] # None
         /\ locked' = [locked EXCEPT ![terms.reference] = terms.amount]
  <1>1. terms \in TermsMessage
    BY DEF Placed, Deposit
  <1>2. terms.reference \in References /\ terms.seller \in Wallets /\ terms.amount \in Prices
    BY <1>1 DEF TermsMessage
  <1>3. /\ order' = [order EXCEPT ![terms.reference] = [payee |-> terms.seller, place |-> "open"]]
        /\ locked' = [locked EXCEPT ![terms.reference] = terms.amount]
    BY DEF Deposit, Lock, Settlement!Open
  <1>4. [payee |-> terms.seller, place |-> "open"] \in [payee: Wallets, place: Settlement!Places]
    BY <1>2 DEF Settlement!Places
  <1>5. Post(S, x)
    BY NothingPosted DEF Deposit
  <1>6. inbox' \in [Agents -> Seq(Messages)]
    BY <1>5 DEF Post
  <1>7. TypeOK'
    BY <1>2, <1>3, <1>4, <1>6 DEF TypeOK, Settlement!TypeOK, Settlement!OrderState, Deposit, sellerVars, faultVars, historyVars
  <1>8. Placed'
    BY DEF Placed, Deposit
  <1>9. [payee |-> terms.seller, place |-> "open"] # None
    BY <1>4, NoneAssumption DEF NoneAssumption
  <1> QED BY <1>1, <1>2, <1>3, <1>5, <1>7, <1>8, <1>9 DEF Deposit, sellerVars

LEMMA AnnounceTyped ==
  ASSUME TypeOK, Placed, Announce
  PROVE  /\ TypeOK' /\ Placed' /\ terms.reference \in References
         /\ Post({winner}, [type |-> "DEPOSITED", round |-> round, reference |-> terms.reference])
  <1>1. /\ winner \in Sellers /\ round \in Rounds /\ terms \in TermsMessage
        /\ terms.reference \in References
    BY DEF Placed, Announce, TermsMessage
  <1>2. Post({winner}, [type |-> "DEPOSITED", round |-> round, reference |-> terms.reference])
    BY <1>1, MessagesMade, SendPosts DEF Announce
  <1>3. inbox' \in [Agents -> Seq(Messages)]
    BY <1>2 DEF Post
  <1>4. TypeOK'
    BY <1>3 DEF TypeOK, Settlement!TypeOK, Announce, sellerVars, worldVars, escrowVars, faultVars, historyVars
  <1>5. Placed'
    BY DEF Placed, Announce
  <1> QED BY <1>1, <1>2, <1>4, <1>5

LEMMA ReceiveReportTyped ==
  ASSUME TypeOK, Placed, ReceiveReport, NEW S, NEW x
  PROVE  /\ TypeOK' /\ Placed' /\ Post(S, x)
         /\ \/ pc' = "sleep"
            \/ pc' = "release" /\ UNCHANGED <<round, issue, terms>>
  <1>1. PICK n \in Readable(Buyer) :
          /\ Take(Buyer, n)
          /\ \/ pc' = "release" /\ UNCHANGED <<round, bids, winner, issue, terms>>
             \/ EndRound
    BY DEF ReceiveReport
  <1>2. n \in DOMAIN inbox[Buyer]
    BY Names, ReadableFacts
  <1>3. Post(S, x)
    BY <1>1, <1>2, Names, TakePosts
  <1>4. inbox' \in [Agents -> Seq(Messages)]
    BY <1>3 DEF Post
  <1>5. UNCHANGED <<sellerVars, escrowVars, valid, faultVars, historyVars>>
    BY DEF ReceiveReport, worldVars
  <1>6. Settlement!TypeOK'
    BY <1>5 DEF TypeOK, Settlement!TypeOK, escrowVars
  <1>7. CASE EndRound
    <2>1. TypeOK' /\ Placed'
      BY <1>4, <1>5, <1>6, <1>7, EndRoundTyped DEF escrowVars
    <2> QED BY <1>3, <1>7, <2>1 DEF EndRound
  <1>8. CASE pc' = "release" /\ UNCHANGED <<round, bids, winner, issue, terms>>
    <2>1. TypeOK'
      BY <1>4, <1>5, <1>6, <1>8 DEF TypeOK, sellerVars, escrowVars, faultVars, historyVars
    <2>2. Placed'
      BY <1>8 DEF Placed, ReceiveReport
    <2> QED BY <1>3, <1>8, <2>1, <2>2
  <1> QED BY <1>1, <1>7, <1>8

\* What a payment and the passing of a deadline do to an escrow.
LEMMA MoveTyped ==
  ASSUME TypeOK, NEW k \in References, Settlement!Locked(k), NEW place \in Settlement!Places,
         order' = [order EXCEPT ![k] = [order[k] EXCEPT !.place = place]]
  PROVE  /\ Settlement!TypeOK' /\ order[k] # None /\ order[k].place # "paid"
         /\ order'[k] # None /\ order'[k].payee = order[k].payee /\ order'[k].place = place
         /\ \A j \in References \ {k} : order'[j] = order[j]
  <1>1. order \in [References -> Settlement!OrderState]
    BY DEF TypeOK, Settlement!TypeOK
  <1>2. order[k] \in [payee: Wallets, place: Settlement!Places] /\ order[k].place \in {"open", "matured"}
    BY <1>1 DEF Settlement!Locked, Settlement!OrderState
  <1>3. [order[k] EXCEPT !.place = place] \in [payee: Wallets, place: Settlement!Places]
    BY <1>2
  <1>4. order'[k] = [order[k] EXCEPT !.place = place] /\ \A j \in References \ {k} : order'[j] = order[j]
    BY <1>1
  <1>5. order'[k] # None
    BY <1>3, <1>4, NoneAssumption DEF NoneAssumption
  <1>6. order' \in [References -> Settlement!OrderState]
    BY <1>1, <1>3 DEF Settlement!OrderState
  <1>7. order'[k].payee = order[k].payee /\ order'[k].place = place
    BY <1>2, <1>4
  <1> QED BY <1>2, <1>4, <1>5, <1>6, <1>7 DEF Settlement!TypeOK, Settlement!Locked

LEMMA PayTyped ==
  ASSUME TypeOK, Placed, Pay, NEW S, NEW x
  PROVE  /\ TypeOK' /\ Placed' /\ Post(S, x) /\ pc' = "sleep"
         /\ terms.reference \in References /\ Settlement!Locked(terms.reference)
         /\ order' = [order EXCEPT ![terms.reference] = [order[terms.reference] EXCEPT !.place = "paid"]]
  <1>1. terms.reference \in References
    BY DEF Placed, Pay, TermsMessage
  <1>2. /\ Settlement!Locked(terms.reference)
        /\ order' = [order EXCEPT ![terms.reference].place = "paid"]
    BY DEF Pay, PayOut, Settlement!Pay, Settlement!Move
  <1>3. order' = [order EXCEPT ![terms.reference] = [order[terms.reference] EXCEPT !.place = "paid"]]
    BY <1>2
  <1>4. "paid" \in Settlement!Places
    BY DEF Settlement!Places
  <1>5. Settlement!TypeOK'
    BY <1>1, <1>2, <1>3, <1>4, MoveTyped
  <1>6. Post(S, x)
    BY NothingPosted DEF Pay
  <1>7. inbox' \in [Agents -> Seq(Messages)]
    BY <1>6 DEF Post
  <1>8. TypeOK' /\ Placed'
    BY <1>5, <1>7, EndRoundTyped DEF Pay, PayOut
  <1> QED BY <1>1, <1>2, <1>3, <1>6, <1>8 DEF Pay, EndRound

LEMMA MailOnlyTyped ==
  ASSUME TypeOK, Placed, Discard \/ (\E a \in Agents : Lose(a)), NEW S, NEW x
  PROVE  /\ TypeOK' /\ Placed' /\ Post(S, x)
         /\ UNCHANGED <<buyerVars, sellerVars, escrowVars, historyVars>>
  <1>1. UNCHANGED <<buyerVars, sellerVars, escrowVars, valid, faultVars, historyVars>>
    BY DEF Discard, Lose, worldVars
  <1>2. Post(S, x)
    <2>1. CASE Discard
      <3>1. PICK n \in Readable(Buyer) : Take(Buyer, n)
        BY <2>1 DEF Discard
      <3>2. n \in DOMAIN inbox[Buyer]
        BY Names, ReadableFacts
      <3> QED BY <3>1, <3>2, Names, TakePosts
    <2>2. ASSUME NEW a \in Agents, Lose(a) PROVE Post(S, x)
      BY <2>2, LosePosts DEF Lose
    <2> QED BY <2>1, <2>2
  <1>3. inbox' \in [Agents -> Seq(Messages)]
    BY <1>2 DEF Post
  <1>4. TypeOK'
    BY <1>1, <1>3 DEF TypeOK, Settlement!TypeOK, buyerVars, sellerVars, escrowVars, faultVars, historyVars
  <1>5. Placed'
    BY <1>1 DEF Placed, buyerVars
  <1> QED BY <1>1, <1>2, <1>4, <1>5

LEMMA BuyerRestartsTyped ==
  ASSUME TypeOK, BuyerRestarts, NEW S, NEW x
  PROVE  TypeOK' /\ Placed' /\ Post(S, x) /\ pc' = "sleep"
  <1>1. Post(S, x)
    BY Names, LosePosts DEF BuyerRestarts
  <1>2. inbox' \in [Agents -> Seq(Messages)]
    BY <1>1 DEF Post
  <1>3. restarts' \in 0 .. MaxRestarts /\ MaxRound \in Nat
    BY MarketAssumption DEF MarketAssumption, BuyerRestarts, TypeOK
  <1>4. TypeOK'
    BY <1>2, <1>3 DEF TypeOK, Settlement!TypeOK, BuyerRestarts, Empty, sellerVars, escrowVars, historyVars
  <1>5. Placed'
    BY DEF Placed, BuyerRestarts
  <1> QED BY <1>1, <1>4, <1>5 DEF BuyerRestarts

LEMMA SellerRestartsTyped ==
  ASSUME TypeOK, Placed, NEW s \in Sellers, SellerRestarts(s), NEW S, NEW x
  PROVE  /\ TypeOK' /\ Placed' /\ Post(S, x) /\ UNCHANGED <<buyerVars, escrowVars, historyVars>>
         /\ grants' = [grants EXCEPT ![s] = Empty(Rounds)] /\ job' = [job EXCEPT ![s] = None]
  <1>1. Post(S, x)
    BY Names, LosePosts DEF SellerRestarts
  <1>2. inbox' \in [Agents -> Seq(Messages)]
    BY <1>1 DEF Post
  <1>3. crashes' \in 0 .. MaxCrashes
    BY MarketAssumption DEF MarketAssumption, SellerRestarts, TypeOK
  <1>4. TypeOK'
    BY <1>2, <1>3 DEF TypeOK, Settlement!TypeOK, SellerRestarts, Empty, buyerVars, escrowVars, historyVars
  <1>5. Placed'
    BY DEF Placed, SellerRestarts, buyerVars
  <1> QED BY <1>1, <1>4, <1>5 DEF SellerRestarts

LEMMA ReceiveWantTyped ==
  ASSUME TypeOK, Placed, NEW s \in Sellers, NEW n \in Readable(s), ReceiveWant(s, n)
  PROVE  /\ TypeOK' /\ Placed' /\ UNCHANGED <<buyerVars, escrowVars, historyVars, job, grants>>
         /\ \E S, m : Post(S, m) /\ m.type = "BID"
  <1>1. n \in DOMAIN inbox[s] /\ inbox[s][n] \in Messages /\ inbox[s][n].round \in Rounds
    BY Names, ReadableFacts, MessageFacts
  <1>2. quoted' \in [Sellers -> [Rounds -> Prices \cup {None}]] /\ \E S, m : Post(S, m) /\ m.type = "BID"
    <2>1. ASSUME NEW p \in Quotes[s], quoted' = [quoted EXCEPT ![s][inbox[s][n].round] = p],
                 TakeAndReply(s, n, Buyer, [type |-> "BID", round |-> inbox[s][n].round, by |-> s, price |-> p])
          PROVE  quoted' \in [Sellers -> [Rounds -> Prices \cup {None}]] /\ \E S, m : Post(S, m) /\ m.type = "BID"
      <3>1. p \in Prices
        BY Names
      <3>2. [type |-> "BID", round |-> inbox[s][n].round, by |-> s, price |-> p] \in Messages
        BY <1>1, <3>1, MessagesMade
      <3>3. Post({Buyer}, [type |-> "BID", round |-> inbox[s][n].round, by |-> s, price |-> p])
        BY <1>1, <2>1, <3>2, Names, ReplyPosts
      <3> QED BY <1>1, <2>1, <3>1, <3>3 DEF TypeOK
    <2>2. CASE Take(s, n) /\ UNCHANGED quoted
      <3>1. Post({}, [type |-> "BID"])
        BY <1>1, <2>2, Names, TakePosts
      <3> QED BY <2>2, <3>1 DEF TypeOK
    <2> QED BY <2>1, <2>2 DEF ReceiveWant
  <1>3. inbox' \in [Agents -> Seq(Messages)]
    BY <1>2 DEF Post
  <1>4. UNCHANGED <<grants, pending, awarded, job, restOfSeller, progress>>
    BY DEF ReceiveWant
  <1>5. TypeOK'
    BY <1>2, <1>3, <1>4 DEF TypeOK, Settlement!TypeOK, restOfSeller, buyerVars, escrowVars, faultVars
  <1>6. Placed'
    BY <1>4 DEF Placed, restOfSeller, buyerVars
  <1> QED BY <1>2, <1>4, <1>5, <1>6 DEF restOfSeller, historyVars, faultVars, escrowVars

\* Consent is refused, kept for later, or verified: then terms go to the buyer.
LEMMA ProceedTyped ==
  ASSUME TypeOK, NEW s \in Sellers, NEW n \in DOMAIN inbox[s], NEW r \in Rounds,
         NEW prices \in [Rounds -> Prices \cup {None}], NEW tokens \in [Rounds -> Issues \cup {None}],
         ProceedIfReady(s, n, r, prices, tokens)
  PROVE  /\ pending' \in [Sellers -> [Rounds -> Prices \cup {None}]]
         /\ awarded' \in [Sellers -> [References -> Prices \cup {None}]]
         /\ \E t \in [Rounds -> Issues \cup {None}] :
              /\ grants' = [grants EXCEPT ![s] = t]
              /\ \A q \in Rounds : t[q] \in {tokens[q], None}
         /\ \/ UNCHANGED progress /\ \E S, m : Post(S, m) /\ m.type = "WANT"
            \/ /\ tokens[r] # None /\ <<tokens[r], r>> \in References
               /\ progress' = [progress EXCEPT ![<<tokens[r], r>>] = IF @ = "none" THEN "verified" ELSE @]
               /\ Post({Buyer}, [type |-> "ESCROW_REQUIRED", round |-> r, reference |-> <<tokens[r], r>>,
                                 seller |-> WalletOf[s], amount |-> prices[r],
                                 arbitrated |-> s \in ArbiterSellers])
  <1>. DEFINE k == <<tokens[r], r>>
              m == [type |-> "ESCROW_REQUIRED", round |-> r, reference |-> k,
                    seller |-> WalletOf[s], amount |-> prices[r], arbitrated |-> s \in ArbiterSellers]
  <1>1. ASSUME Take(s, n) PROVE \E S, x : Post(S, x) /\ x.type = "WANT"
    <2>1. Post({}, [type |-> "WANT"])
      BY <1>1, Names, TakePosts
    <2> QED BY <2>1
  <1>2. pending \in [Sellers -> [Rounds -> Prices \cup {None}]] /\ awarded \in [Sellers -> [References -> Prices \cup {None}]]
    BY DEF TypeOK
  <1>3. CASE /\ pending' = [pending EXCEPT ![s] = prices] /\ grants' = [grants EXCEPT ![s] = tokens]
             /\ Take(s, n) /\ UNCHANGED <<awarded, progress>>
    <2>1. \A q \in Rounds : tokens[q] \in {tokens[q], None}
      OBVIOUS
    <2>2. pending' \in [Sellers -> [Rounds -> Prices \cup {None}]]
      BY <1>2, <1>3
    <2>3. \E t \in [Rounds -> Issues \cup {None}] :
              /\ grants' = [grants EXCEPT ![s] = t]
              /\ \A q \in Rounds : t[q] \in {tokens[q], None}
      BY <1>3, <2>1
    <2> QED BY <1>1, <1>2, <1>3, <2>2, <2>3
  <1>4. CASE /\ pending' = [pending EXCEPT ![s] = [prices EXCEPT ![r] = None]]
             /\ grants' = [grants EXCEPT ![s] = [tokens EXCEPT ![r] = None]]
             /\ Take(s, n) /\ UNCHANGED <<awarded, progress>>
    <2>1. /\ [tokens EXCEPT ![r] = None] \in [Rounds -> Issues \cup {None}]
          /\ \A q \in Rounds : [tokens EXCEPT ![r] = None][q] \in {tokens[q], None}
      OBVIOUS
    <2>2. [prices EXCEPT ![r] = None] \in [Rounds -> Prices \cup {None}]
      OBVIOUS
    <2>3. pending' \in [Sellers -> [Rounds -> Prices \cup {None}]]
      BY <1>2, <1>4, <2>2
    <2>4. \E t \in [Rounds -> Issues \cup {None}] :
              /\ grants' = [grants EXCEPT ![s] = t]
              /\ \A q \in Rounds : t[q] \in {tokens[q], None}
      BY <1>4, <2>1
    <2> QED BY <1>1, <1>2, <1>4, <2>3, <2>4
  <1>5. CASE /\ prices[r] # None /\ tokens[r] # None
             /\ pending' = [pending EXCEPT ![s] = [prices EXCEPT ![r] = None]]
             /\ grants' = [grants EXCEPT ![s] = tokens]
             /\ awarded' = [awarded EXCEPT ![s][k] = prices[r]]
             /\ progress' = [progress EXCEPT ![k] = IF @ = "none" THEN "verified" ELSE @]
             /\ TakeAndReply(s, n, Buyer, m)
    <2>1. prices[r] \in Prices /\ tokens[r] \in Issues /\ k \in References
      BY <1>5, Names
    <2>2. m \in Messages
      <3>1. (s \in ArbiterSellers) \in BOOLEAN
        OBVIOUS
      <3> QED BY <2>1, <3>1, Names, MessagesMade
    <2>3. Post({Buyer}, m)
      BY <1>5, <2>2, Names, ReplyPosts
    <2>4. [prices EXCEPT ![r] = None] \in [Rounds -> Prices \cup {None}]
      OBVIOUS
    <2>5. /\ pending' \in [Sellers -> [Rounds -> Prices \cup {None}]]
          /\ awarded' \in [Sellers -> [References -> Prices \cup {None}]]
      BY <1>2, <1>5, <2>1, <2>4
    <2>6. \E t \in [Rounds -> Issues \cup {None}] :
              /\ grants' = [grants EXCEPT ![s] = t]
              /\ \A q \in Rounds : t[q] \in {tokens[q], None}
      BY <1>5
    <2> QED BY <1>5, <2>1, <2>3, <2>5, <2>6
  <1> QED BY <1>3, <1>4, <1>5 DEF ProceedIfReady

LEMMA SellerTyped ==
  ASSUME TypeOK, Placed, NEW s \in Sellers, NEW n \in DOMAIN inbox[s], NEW r \in Rounds,
         NEW prices \in [Rounds -> Prices \cup {None}], NEW tokens \in [Rounds -> Issues \cup {None}],
         ProceedIfReady(s, n, r, prices, tokens), UNCHANGED <<job, restOfSeller>>,
         quoted' \in [Sellers -> [Rounds -> Prices \cup {None}]]
  PROVE  TypeOK' /\ Placed'
  <1>1. /\ pending' \in [Sellers -> [Rounds -> Prices \cup {None}]]
        /\ awarded' \in [Sellers -> [References -> Prices \cup {None}]]
        /\ \E t \in [Rounds -> Issues \cup {None}] : grants' = [grants EXCEPT ![s] = t]
        /\ \/ UNCHANGED progress
           \/ \E k \in References : progress' = [progress EXCEPT ![k] = IF @ = "none" THEN "verified" ELSE @]
        /\ \E S, m : Post(S, m)
    BY ProceedTyped
  <1>2. inbox' \in [Agents -> Seq(Messages)]
    BY <1>1 DEF Post
  <1>3. grants' \in [Sellers -> [Rounds -> Issues \cup {None}]]
    BY <1>1 DEF TypeOK
  <1>4. progress' \in [References -> {"none", "verified", "begun", "reported"}]
    BY <1>1 DEF TypeOK
  <1>5. TypeOK'
    BY <1>1, <1>2, <1>3, <1>4 DEF TypeOK, Settlement!TypeOK, restOfSeller, buyerVars, escrowVars, faultVars
  <1>6. Placed'
    BY DEF Placed, restOfSeller, buyerVars
  <1> QED BY <1>5, <1>6

LEMMA ReceiveGrantTyped ==
  ASSUME TypeOK, Placed, NEW s \in Sellers, NEW n \in Readable(s), ReceiveGrant(s, n)
  PROVE  LET m == inbox[s][n]
             tokens == [grants[s] EXCEPT ![m.round] = m.issue]
         IN  /\ TypeOK' /\ Placed' /\ UNCHANGED <<buyerVars, escrowVars, deal, job>>
             /\ n \in DOMAIN inbox[s] /\ m \in Messages /\ m.type = "GRANT"
             /\ m.round \in Rounds /\ tokens \in [Rounds -> Issues \cup {None}]
             /\ \E prices \in [Rounds -> Prices \cup {None}] : ProceedIfReady(s, n, m.round, prices, tokens)
  <1>. DEFINE m == inbox[s][n]
              tokens == [grants[s] EXCEPT ![m.round] = m.issue]
  <1>1. n \in DOMAIN inbox[s] /\ m \in Messages /\ m.type = "GRANT"
    BY Names, ReadableFacts DEF ReceiveGrant
  <1>2. m.round \in Rounds /\ m.issue \in Issues
    BY <1>1, MessageFacts
  <1>3. tokens \in [Rounds -> Issues \cup {None}] /\ pending[s] \in [Rounds -> Prices \cup {None}]
    BY <1>2 DEF TypeOK
  <1>4. ProceedIfReady(s, n, m.round, pending[s], tokens) /\ UNCHANGED <<quoted, job, restOfSeller>>
    BY DEF ReceiveGrant
  <1>5. TypeOK' /\ Placed'
    <2>1. quoted' \in [Sellers -> [Rounds -> Prices \cup {None}]]
      BY <1>4 DEF TypeOK
    <2>2. n \in DOMAIN inbox[s]
      BY <1>1
    <2> HIDE DEF m, tokens
    <2> QED BY <1>2, <1>3, <1>4, <2>1, <2>2, SellerTyped
  <1> QED BY <1>1, <1>2, <1>3, <1>4, <1>5 DEF m, tokens, restOfSeller

LEMMA ReceiveAwardTyped ==
  ASSUME TypeOK, Placed, NEW s \in Sellers, NEW n \in Readable(s), ReceiveAward(s, n)
  PROVE  LET m == inbox[s][n]
         IN  /\ TypeOK' /\ Placed' /\ UNCHANGED <<buyerVars, escrowVars, deal, job>>
             /\ n \in DOMAIN inbox[s] /\ m.round \in Rounds
             /\ \/ UNCHANGED <<grants, progress>> /\ Take(s, n)
                \/ \E prices \in [Rounds -> Prices \cup {None}] : ProceedIfReady(s, n, m.round, prices, grants[s])
  <1>. DEFINE m == inbox[s][n]
              r == m.round
  <1>1. n \in DOMAIN inbox[s] /\ m \in Messages
    BY Names, ReadableFacts
  <1>2. r \in Rounds
    BY <1>1, MessageFacts
  <1>3. UNCHANGED <<job, restOfSeller>>
    BY DEF ReceiveAward
  <1>4. CASE /\ quoted[s][r] # None /\ quoted' = [quoted EXCEPT ![s][r] = None]
             /\ ProceedIfReady(s, n, r, [pending[s] EXCEPT ![r] = quoted[s][r]], grants[s])
    <2>1. /\ [pending[s] EXCEPT ![r] = quoted[s][r]] \in [Rounds -> Prices \cup {None}]
          /\ grants[s] \in [Rounds -> Issues \cup {None}]
          /\ quoted' \in [Sellers -> [Rounds -> Prices \cup {None}]]
      BY <1>2, <1>4 DEF TypeOK
    <2> HIDE DEF r
    <2>2. TypeOK' /\ Placed'
      BY <1>1, <1>2, <1>3, <1>4, <2>1, SellerTyped DEF r
    <2> QED BY <1>1, <1>2, <1>3, <1>4, <2>1, <2>2 DEF restOfSeller, r
  <1>5. CASE Take(s, n) /\ UNCHANGED <<quoted, grants, pending, awarded, progress>>
    <2>1. Post({}, m)
      BY <1>1, <1>5, Names, TakePosts
    <2>2. TypeOK'
      BY <1>3, <1>5, <2>1 DEF Post, TypeOK, Settlement!TypeOK, restOfSeller, buyerVars, escrowVars, faultVars
    <2>3. Placed'
      BY <1>3 DEF Placed, restOfSeller, buyerVars
    <2> QED BY <1>1, <1>2, <1>3, <1>5, <2>2, <2>3 DEF restOfSeller
  <1> QED BY <1>4, <1>5 DEF ReceiveAward

JobRecord == [reference: References, price: Prices, stage: {"checking", "scanning"}]

LEMMA ReceiveDepositedTyped ==
  ASSUME TypeOK, Placed, NEW s \in Sellers, NEW n \in Readable(s), ReceiveDeposited(s, n)
  PROVE  LET k == inbox[s][n].reference
         IN  /\ TypeOK' /\ Placed' /\ UNCHANGED <<buyerVars, escrowVars, deal, grants>>
             /\ n \in DOMAIN inbox[s] /\ k \in References /\ inbox[s][n].type = "DEPOSITED" /\ Take(s, n)
             /\ \/ UNCHANGED <<job, progress>>
                \/ /\ Funded(s, k) /\ awarded[s][k] \in Prices
                   /\ job' = [job EXCEPT ![s] = [reference |-> k, price |-> awarded[s][k], stage |-> "checking"]]
                   /\ progress' = [progress EXCEPT ![k] = "begun"]
  <1>. DEFINE m == inbox[s][n]
              k == m.reference
  <1>1. n \in DOMAIN inbox[s] /\ m \in Messages /\ m.type = "DEPOSITED" /\ Take(s, n)
    BY Names, ReadableFacts DEF ReceiveDeposited
  <1>2. k \in References
    BY <1>1, MessageFacts
  <1> HIDE DEF k
  <1>3. \/ /\ Funded(s, k) /\ awarded[s][k] # None
           /\ awarded' = [awarded EXCEPT ![s][k] = None]
           /\ job' = [job EXCEPT ![s] = [reference |-> k, price |-> awarded[s][k], stage |-> "checking"]]
           /\ progress' = [progress EXCEPT ![k] = "begun"]
        \/ UNCHANGED <<awarded, job, progress>>
    BY DEF ReceiveDeposited, k
  <1>4. Post({}, m)
    BY <1>1, Names, TakePosts
  <1>5. inbox' \in [Agents -> Seq(Messages)]
    BY <1>4 DEF Post
  <1>6. UNCHANGED <<quoted, grants, pending, restOfSeller>>
    BY DEF ReceiveDeposited
  <1>7. awarded[s][k] # None => awarded[s][k] \in Prices
    BY <1>2 DEF TypeOK
  <1>8. /\ awarded' \in [Sellers -> [References -> Prices \cup {None}]]
        /\ progress' \in [References -> {"none", "verified", "begun", "reported"}]
    <2>1. /\ awarded \in [Sellers -> [References -> Prices \cup {None}]]
          /\ progress \in [References -> {"none", "verified", "begun", "reported"}]
      BY DEF TypeOK
    <2> QED BY <1>2, <1>3, <2>1
  <1>9. job' \in [Sellers -> JobRecord \cup {None}]
    <2>1. job \in [Sellers -> JobRecord \cup {None}]
      BY DEF TypeOK, JobRecord
    <2>2. awarded[s][k] \in Prices => [reference |-> k, price |-> awarded[s][k], stage |-> "checking"] \in JobRecord
      BY <1>2 DEF JobRecord
    <2> QED BY <1>3, <1>7, <2>1, <2>2
  <1>10. TypeOK'
    BY <1>5, <1>6, <1>8, <1>9 DEF TypeOK, Settlement!TypeOK, JobRecord, restOfSeller, buyerVars, escrowVars, faultVars
  <1>11. Placed'
    BY <1>6 DEF Placed, restOfSeller, buyerVars
  <1> QED BY <1>1, <1>2, <1>3, <1>6, <1>7, <1>10, <1>11 DEF k, restOfSeller

\* The steps of a delivery.
LEMMA JobTyped ==
  ASSUME TypeOK, Placed, NEW s \in Sellers, StartScan(s) \/ Deliver(s) \/ Abandon(s)
  PROVE  /\ TypeOK' /\ Placed' /\ UNCHANGED <<buyerVars, escrowVars, deal, grants>>
         /\ \E S, m : Post(S, m) /\ m.type = "DELIVERED"
         /\ job[s] # None /\ job[s].reference \in References
         /\ \/ job' = [job EXCEPT ![s].stage = "scanning"] /\ UNCHANGED progress
            \/ job' = [job EXCEPT ![s] = None] /\ UNCHANGED progress
            \/ /\ job' = [job EXCEPT ![s] = None]
               /\ progress' = [progress EXCEPT ![job[s].reference] = "reported"]
  <1>1. UNCHANGED <<quoted, grants, pending, awarded, restOfSeller>>
    BY DEF StartScan, Deliver, Abandon, restOfJob
  <1>2. job[s] # None /\ job[s] \in JobRecord /\ job[s].reference \in References
    BY DEF StartScan, Deliver, Abandon, TypeOK, JobRecord
  <1>3. \E S, m : Post(S, m) /\ m.type = "DELIVERED"
    <2>1. CASE UNCHANGED inbox
      <3>1. Post({}, [type |-> "DELIVERED"])
        BY <2>1, NothingPosted
      <3> QED BY <3>1
    <2>2. CASE Deliver(s)
      <3>. DEFINE k == job[s].reference
      <3>1. PICK report \in {k[1]} \cup (IF faulty THEN {None} ELSE {}) :
              inbox' = [inbox EXCEPT ![Buyer] = Append(@,
                          [type |-> "DELIVERED", round |-> k[2], report |-> report])]
        BY <2>2 DEF Deliver
      <3>2. k[1] \in Issues /\ k[2] \in Rounds
        BY <1>2, Names
      <3>3. PICK m : m = [type |-> "DELIVERED", round |-> k[2], report |-> report]
        OBVIOUS
      <3>4. m \in Messages /\ m.type = "DELIVERED"
        BY <3>1, <3>2, <3>3, MessagesMade
      <3>5. inbox \in [Agents -> Seq(Messages)]
        BY DEF TypeOK
      <3>6. inbox' = [a \in Agents |-> IF a \in {Buyer} THEN Append(inbox[a], m) ELSE inbox[a]]
        BY <3>1, <3>3, <3>5
      <3>7. Post({Buyer}, m)
        BY <3>4, <3>6, SendPosts DEF Send
      <3> QED BY <3>4, <3>7
    <2> QED BY <2>1, <2>2 DEF StartScan, Abandon
  <1>4. inbox' \in [Agents -> Seq(Messages)]
    BY <1>3 DEF Post
  <1>5. \/ job' = [job EXCEPT ![s].stage = "scanning"] /\ UNCHANGED progress
        \/ job' = [job EXCEPT ![s] = None] /\ UNCHANGED progress
        \/ /\ job' = [job EXCEPT ![s] = None]
           /\ progress' = [progress EXCEPT ![job[s].reference] = "reported"]
    BY DEF StartScan, Deliver, Abandon
  <1>6. progress' \in [References -> {"none", "verified", "begun", "reported"}]
    BY <1>2, <1>5 DEF TypeOK
  <1>7. job' \in [Sellers -> JobRecord \cup {None}]
    <2>1. job \in [Sellers -> JobRecord \cup {None}]
      BY DEF TypeOK, JobRecord
    <2>2. [job[s] EXCEPT !.stage = "scanning"] \in JobRecord
      BY <1>2 DEF JobRecord
    <2> QED BY <1>5, <2>1, <2>2
  <1>8. TypeOK'
    BY <1>1, <1>4, <1>6, <1>7 DEF TypeOK, Settlement!TypeOK, JobRecord, restOfSeller, buyerVars, escrowVars, faultVars
  <1>9. Placed'
    BY <1>1 DEF Placed, restOfSeller, buyerVars
  <1> QED BY <1>1, <1>2, <1>3, <1>5, <1>8, <1>9 DEF restOfSeller

LEMMA TimeTyped ==
  ASSUME TypeOK, Placed, NEW S, NEW x,
         (\E i \in Issues : Lapse(i)) \/ (\E k \in References : DeadlinePasses(k))
  PROVE  /\ TypeOK' /\ Placed' /\ Post(S, x) /\ UNCHANGED <<buyerVars, sellerVars, locked, historyVars>>
         /\ \/ UNCHANGED order
            \/ \E k \in References :
                 /\ Settlement!Locked(k)
                 /\ order' = [order EXCEPT ![k] = [order[k] EXCEPT !.place = "matured"]]
  <1>1. UNCHANGED <<buyerVars, sellerVars, inbox, locked, faultVars, historyVars>>
    BY DEF Lapse, DeadlinePasses, escrowVars
  <1>2. Post(S, x)
    BY <1>1, NothingPosted
  <1>3. inbox' \in [Agents -> Seq(Messages)]
    BY <1>2 DEF Post
  <1>4. valid' \subseteq Issues
    BY DEF Lapse, DeadlinePasses, TypeOK
  <1>5. ASSUME NEW k \in References, DeadlinePasses(k)
        PROVE  /\ Settlement!Locked(k)
               /\ order' = [order EXCEPT ![k] = [order[k] EXCEPT !.place = "matured"]]
    <2>1. /\ Settlement!Locked(k)
          /\ order' = [o \in References |-> IF o \in {k} THEN [order[o] EXCEPT !.place = "matured"] ELSE order[o]]
      BY <1>5 DEF DeadlinePasses, Settlement!Mature, Settlement!Unripe
    <2>2. order \in [References -> Settlement!OrderState]
      BY DEF TypeOK, Settlement!TypeOK
    <2> QED BY <2>1, <2>2
  <1>6. \/ UNCHANGED order
        \/ \E k \in References :
             /\ Settlement!Locked(k)
             /\ order' = [order EXCEPT ![k] = [order[k] EXCEPT !.place = "matured"]]
    BY <1>5 DEF Lapse, escrowVars
  <1>7. Settlement!TypeOK'
    <2>1. "matured" \in Settlement!Places
      BY DEF Settlement!Places
    <2>2. UNCHANGED order => Settlement!TypeOK'
      BY DEF TypeOK, Settlement!TypeOK
    <2> QED BY <1>6, <2>1, <2>2, MoveTyped
  <1>8. TypeOK'
    BY <1>1, <1>3, <1>4, <1>7 DEF TypeOK, buyerVars, sellerVars, faultVars, historyVars
  <1>9. Placed'
    BY <1>1 DEF Placed, buyerVars
  <1> QED BY <1>1, <1>2, <1>6, <1>8, <1>9
-----------------------------------------------------------------------------
(***************************************************************************)
(* What never shrinks, and what follows for the mail.                      *)
(***************************************************************************)
Grows ==
  /\ \A i \in Issues : deal[i] # None => deal'[i] = deal[i]
  /\ \A k \in References : progress[k] # "none" => progress'[k] # "none"
  /\ \A k \in References : order[k] # None =>
       /\ order'[k] # None /\ order'[k].payee = order[k].payee
       /\ order[k].place # "returned" => order'[k].place # "returned"
       /\ locked'[k] = locked[k]

LEMMA ConsentedGrows ==
  ASSUME Grows, NEW k \in References, NEW w, Consented(k, w)
  PROVE  Consented(k, w)'
  <1>1. k[1] \in Issues
    BY Names
  <1> QED BY <1>1 DEF Grows, Consented

LEMMA BackedGrows ==
  ASSUME Grows, NEW a, NEW x \in Messages, Backed(a, x)
  PROVE  Backed(a, x)'
  <1>1. /\ x.type = "GRANT" => x.issue \in Issues
        /\ x.type \in {"ESCROW_REQUIRED", "DEPOSITED"} => x.reference \in References
    BY MessageFacts DEF TermsMessage
  <1>2. ASSUME x.type = "ESCROW_REQUIRED" PROVE Consented(x.reference, x.seller)'
    <2>1. x.reference \in References /\ Consented(x.reference, x.seller)
      BY <1>1, <1>2 DEF Backed
    <2> QED BY <2>1, ConsentedGrows
  <1>3. x.type = "GRANT" => Granted(x.issue, a, x.round)'
    BY <1>1 DEF Grows, Backed, Granted
  <1>4. x.type = "DEPOSITED" => order'[x.reference] # None
    BY <1>1 DEF Grows, Backed
  <1> QED BY <1>2, <1>3, <1>4 DEF Backed

LEMMA OldMail ==
  ASSUME TypeOK, NEW a \in Agents, NEW n \in DOMAIN inbox[a]
  PROVE  inbox[a][n] \in Messages
  <1>1. inbox[a] \in Seq(Messages)
    BY DEF TypeOK
  <1>2. DOMAIN inbox[a] = 1 .. Len(inbox[a])
    BY <1>1, LenProperties
  <1> QED BY <1>1, <1>2, ElementOfSeq

LEMMA MailKept ==
  ASSUME TypeOK, Mail, Grows, NEW S, NEW m, Post(S, m), \A a \in S : Backed(a, m)'
  PROVE  Mail'
  <1> SUFFICES ASSUME NEW a \in Agents, NEW n \in DOMAIN inbox'[a]
               PROVE  Backed(a, inbox[a][n])'
    BY DEF Mail
  <1>1. Came(inbox'[a], inbox[a], IF a \in S THEN {m} ELSE {}, {})
    BY DEF Post
  <1>2. \/ \E p \in DOMAIN inbox[a] : inbox'[a][n] = inbox[a][p]
        \/ a \in S /\ inbox'[a][n] = m
    BY <1>1 DEF Came
  <1>3. ASSUME NEW p \in DOMAIN inbox[a], inbox'[a][n] = inbox[a][p]
        PROVE  Backed(a, inbox[a][n])'
    <2>1. inbox[a][p] \in Messages /\ Backed(a, inbox[a][p])
      BY OldMail DEF Mail
    <2>2. PICK x \in Messages : x = inbox[a][p] /\ Backed(a, x)
      BY <2>1
    <2>3. Backed(a, x)'
      BY <2>2, BackedGrows
    <2>4. x = inbox'[a][n]
      BY <1>3, <2>2
    <2> QED BY <2>3, <2>4 DEF Backed, Granted, Consented
  <1>4. CASE a \in S /\ inbox'[a][n] = m
    BY <1>4 DEF Backed, Granted, Consented
  <1> QED BY <1>2, <1>3, <1>4

\* A step that posts no DEPOSITED moves those that are around at most.
LEMMA AnnouncedKept ==
  ASSUME TypeOK, AnnouncedOnce, NEW S, NEW m, Post(S, m), m.type # "DEPOSITED",
         \A k \in References : progress[k] = "verified" => progress'[k] = "verified"
  PROVE  /\ AnnouncedOnce'
         /\ \A k \in References :
              (\A a \in Agents : \A n \in DOMAIN inbox[a] : ~ IsDeposited(k, a, n)) =>
                \A a \in Agents : \A n \in DOMAIN inbox'[a] : ~ IsDeposited(k, a, n)'
  <1>1. \A a \in Agents : \E f \in [DOMAIN inbox'[a] -> Nat] :
          /\ \A i, j \in DOMAIN inbox'[a] : f[i] = f[j] => i = j
          /\ \A i \in DOMAIN inbox'[a] :
               inbox'[a][i].type = "DEPOSITED" => f[i] \in DOMAIN inbox[a] /\ inbox'[a][i] = inbox[a][f[i]]
    BY DEF Post, Came
  <1>2. ASSUME NEW k \in References, NEW a \in Agents, NEW n \in DOMAIN inbox'[a], IsDeposited(k, a, n)'
        PROVE  \E p \in DOMAIN inbox[a] : IsDeposited(k, a, p)
    BY <1>1, <1>2 DEF IsDeposited
  <1>3. ASSUME NEW k \in References, NEW a \in Agents, NEW n \in DOMAIN inbox'[a], IsDeposited(k, a, n)'
        PROVE  /\ progress'[k] = "verified"
               /\ \A b \in Agents : \A p \in DOMAIN inbox'[b] : IsDeposited(k, b, p)' => a = b /\ n = p
    <2>1. PICK q \in DOMAIN inbox[a] : IsDeposited(k, a, q)
      BY <1>2, <1>3
    <2>2. progress'[k] = "verified"
      BY <2>1 DEF AnnouncedOnce
    <2>3. ASSUME NEW b \in Agents, NEW p \in DOMAIN inbox'[b], IsDeposited(k, b, p)'
          PROVE  a = b /\ n = p
      <3>1. a = b
        <4>1. PICK o \in DOMAIN inbox[b] : IsDeposited(k, b, o)
          BY <1>2, <2>3
        <4> QED BY <2>1, <4>1 DEF AnnouncedOnce
      <3>2. PICK f \in [DOMAIN inbox'[a] -> Nat] :
              /\ \A i, j \in DOMAIN inbox'[a] : f[i] = f[j] => i = j
              /\ \A i \in DOMAIN inbox'[a] :
                   inbox'[a][i].type = "DEPOSITED" => f[i] \in DOMAIN inbox[a] /\ inbox'[a][i] = inbox[a][f[i]]
        BY <1>1
      <3>3. /\ f[n] \in DOMAIN inbox[a] /\ IsDeposited(k, a, f[n])
            /\ f[p] \in DOMAIN inbox[a] /\ IsDeposited(k, a, f[p])
        BY <1>3, <2>3, <3>1, <3>2 DEF IsDeposited
      <3>4. f[n] = f[p]
        BY <3>3 DEF AnnouncedOnce
      <3> QED BY <3>1, <3>2, <3>4
    <2> QED BY <2>2, <2>3
  <1>4. AnnouncedOnce'
    BY <1>3 DEF AnnouncedOnce
  <1> QED BY <1>2, <1>4

Unchanging == UNCHANGED <<escrowVars, historyVars, job>>

LEMMA StillInRound ==
  ASSUME IInv, Grows, NEW S, NEW m, Post(S, m), m.type # "DEPOSITED",
         UNCHANGED <<pc, round, issue, terms>>,
         \A k \in References : progress[k] = "verified" => progress'[k] = "verified",
         \A k \in References : order[k] = None => order'[k] = None
  PROVE  InRound'
  <1>1. pc \in {"terms", "deposit"} => <<issue, round>> \in References
    BY Names DEF IInv, Placed
  <1>2. pc \in {"deposit", "announce", "delivery", "release"} => terms.reference \in References
    BY DEF IInv, Placed, TermsMessage
  <1>3. pc \in {"deposit", "announce", "delivery", "release"} => Consented(terms.reference, terms.seller)'
    BY <1>2, ConsentedGrows DEF IInv, InRound, Consented
  <1>4. pc = "announce" =>
          \A a \in Agents : \A n \in DOMAIN inbox'[a] : ~ IsDeposited(terms.reference, a, n)'
    <2>1. \A k \in References :
              (\A a \in Agents : \A n \in DOMAIN inbox[a] : ~ IsDeposited(k, a, n)) =>
                \A a \in Agents : \A n \in DOMAIN inbox'[a] : ~ IsDeposited(k, a, n)'
      BY AnnouncedKept DEF IInv
    <2> QED BY <1>2, <2>1 DEF IInv, InRound, IsDeposited
  <1> QED BY <1>1, <1>2, <1>3, <1>4 DEF IInv, InRound, Grows

LEMMA CalmStep ==
  ASSUME IInv, TypeOK', Placed', Unchanging, NEW S, NEW m, Post(S, m),
         m.type # "DEPOSITED", \A a \in S : Backed(a, m)', Tokens',
         InRound' \/ UNCHANGED <<pc, round, issue, terms>>
  PROVE  IInv'
  <1>1. Grows
    BY DEF Unchanging, escrowVars, historyVars, Grows
  <1>2. \A k \in References : progress'[k] = progress[k] /\ order'[k] = order[k]
    BY DEF Unchanging, escrowVars, historyVars
  <1>3. InRound'
    BY <1>1, <1>2, StillInRound
  <1>4. Mail'
    BY <1>1, MailKept DEF IInv
  <1>5. AnnouncedOnce'
    BY <1>2, AnnouncedKept DEF IInv
  <1>6. Escrows' /\ Jobs' /\ WorkIsFunded'
    BY DEF IInv, Unchanging, escrowVars, historyVars, Escrows, Jobs, WorkIsFunded, Consented
  <1> QED BY <1>3, <1>4, <1>5, <1>6 DEF IInv

\* At these places a round has no deal.
LEMMA NoDealYet ==
  ASSUME pc' \in {"sleep", "collect", "grant"}
  PROVE  InRound'
  BY DEF InRound
-----------------------------------------------------------------------------
(***************************************************************************)
(* The parts of the invariant that read no mail, when a step only adds to  *)
(* what has happened.                                                      *)
(***************************************************************************)
LEMMA TokensKept ==
  ASSUME TypeOK, Tokens, Grows, UNCHANGED grants
  PROVE  Tokens'
  <1>1. \A s \in Sellers, r \in Rounds : grants[s][r] # None => grants[s][r] \in Issues
    BY DEF TypeOK
  <1> QED BY <1>1 DEF Tokens, Granted, Grows

LEMMA EscrowsKept ==
  ASSUME Escrows, Grows, \A k \in References : order[k] = None => order'[k] = None,
         \A k \in References : progress'[k] \in {"begun", "reported"} => order[k] # None
  PROVE  Escrows'
  <1> SUFFICES ASSUME NEW k \in References
               PROVE  /\ order'[k] # None => Consented(k, order[k].payee)' /\ order'[k].place # "returned"
                      /\ progress'[k] \in {"begun", "reported"} => order'[k] # None
    BY DEF Escrows
  <1>1. ASSUME order'[k] # None PROVE Consented(k, order[k].payee)' /\ order'[k].place # "returned"
    <2>1. order[k] # None /\ order'[k].payee = order[k].payee /\ order'[k].place # "returned"
      BY <1>1 DEF Grows, Escrows
    <2>2. Consented(k, order[k].payee)
      BY <2>1 DEF Escrows
    <2>3. PICK w : w = order[k].payee
      OBVIOUS
    <2>4. Consented(k, w)'
      BY <2>2, <2>3, ConsentedGrows
    <2> QED BY <2>1, <2>3, <2>4 DEF Consented
  <1> QED BY <1>1 DEF Grows

LEMMA WorkKept ==
  ASSUME TypeOK, Jobs, WorkIsFunded, Escrows, Grows,
         \A s \in Sellers : job'[s] # None =>
           job[s] # None /\ job'[s].reference = job[s].reference /\ job'[s].price = job[s].price,
         \A k \in References : progress[k] \in {"begun", "reported"} => progress'[k] \in {"begun", "reported"}
  PROVE  Jobs' /\ WorkIsFunded'
  <1>1. \A s \in Sellers : job[s] # None => job[s].reference \in References
    BY DEF TypeOK
  <1>2. Jobs'
    BY <1>1 DEF Jobs
  <1>3. WorkIsFunded'
    BY <1>1 DEF WorkIsFunded, Grows
  <1> QED BY <1>2, <1>3

LEMMA GrowingStep ==
  ASSUME IInv, TypeOK', Placed', Grows, NEW S, NEW m, Post(S, m), m.type # "DEPOSITED",
         \A a \in S : Backed(a, m)',
         \A k \in References : progress[k] = "verified" => progress'[k] = "verified",
         \A k \in References : progress[k] \in {"begun", "reported"} => progress'[k] \in {"begun", "reported"},
         Tokens', Escrows', Jobs', WorkIsFunded',
         \/ InRound'
         \/ /\ UNCHANGED <<pc, round, issue, terms>>
            /\ \A k \in References : order[k] = None => order'[k] = None
  PROVE  IInv'
  <1>1. InRound'
    BY StillInRound
  <1>2. Mail'
    BY MailKept DEF IInv
  <1>3. AnnouncedOnce'
    BY AnnouncedKept DEF IInv
  <1> QED BY <1>1, <1>2, <1>3 DEF IInv

\* When the market's books and the jobs do not change.
LEMMA UnchangingGrows ==
  ASSUME Unchanging
  PROVE  Grows
  BY DEF Unchanging, escrowVars, historyVars, Grows
-----------------------------------------------------------------------------
(***************************************************************************)
(* The steps keep the invariant: the buyer's.                              *)
(***************************************************************************)
Plain == [type |-> "WANT"]

LEMMA PlainBacked ==
  ASSUME NEW a, NEW m, m.type \in {"WANT", "BID", "AWARD", "DELIVERED"}
  PROVE  Backed(a, m)' /\ m.type # "DEPOSITED"
  BY DEF Backed

LEMMA WantSafe ==
  ASSUME IInv, Want
  PROVE  IInv'
  <1>1. TypeOK' /\ Placed' /\ Post(Sellers, [type |-> "WANT", round |-> round'])
    BY WantTyped DEF IInv
  <1>2. PICK m : m = [type |-> "WANT", round |-> round']
    OBVIOUS
  <1>3. Unchanging /\ UNCHANGED grants /\ pc' = "collect"
    BY DEF Want, Unchanging, sellerVars, worldVars
  <1>4. Tokens'
    BY <1>3, UnchangingGrows, TokensKept DEF IInv
  <1>5. InRound'
    BY <1>3, NoDealYet
  <1>6. \A a \in Sellers : Backed(a, m)'
    BY <1>2, PlainBacked
  <1> QED BY <1>1, <1>2, <1>3, <1>4, <1>5, <1>6, CalmStep

LEMMA CollectBidSafe ==
  ASSUME IInv, CollectBid
  PROVE  IInv'
  <1>1. TypeOK' /\ Placed' /\ Post({}, Plain)
    BY CollectBidTyped DEF IInv
  <1>2. Unchanging /\ UNCHANGED grants /\ UNCHANGED <<pc, round, issue, terms>>
    BY DEF CollectBid, Unchanging, sellerVars, worldVars
  <1>3. Tokens'
    BY <1>2, UnchangingGrows, TokensKept DEF IInv
  <1>4. Plain.type # "DEPOSITED"
    BY DEF Plain
  <1> QED BY <1>1, <1>2, <1>3, <1>4, CalmStep

LEMMA RoundFailsSafe ==
  ASSUME IInv, NoSellers \/ RoundFails
  PROVE  IInv'
  <1>1. TypeOK' /\ Placed' /\ Post({}, Plain) /\ pc' = "sleep"
    BY RoundFailsTyped DEF IInv
  <1>2. Unchanging /\ UNCHANGED grants
    BY DEF NoSellers, RoundFails, Unchanging, sellerVars, worldVars
  <1>3. Tokens' /\ InRound'
    BY <1>1, <1>2, UnchangingGrows, TokensKept, NoDealYet DEF IInv
  <1>4. Plain.type # "DEPOSITED"
    BY DEF Plain
  <1> QED BY <1>1, <1>2, <1>3, <1>4, CalmStep

LEMMA AwardSafe ==
  ASSUME IInv, Award
  PROVE  IInv'
  <1>1. TypeOK' /\ Placed' /\ \E S : Post(S, [type |-> "AWARD", round |-> round])
    BY AwardTyped DEF IInv
  <1>2. PICK m : m = [type |-> "AWARD", round |-> round]
    OBVIOUS
  <1>3. PICK S : Post(S, m)
    BY <1>1, <1>2
  <1>4. Unchanging /\ UNCHANGED grants /\ pc' = "grant"
    BY DEF Award, Unchanging, sellerVars, worldVars
  <1>5. Tokens' /\ InRound'
    BY <1>4, UnchangingGrows, TokensKept, NoDealYet DEF IInv
  <1>6. m.type # "DEPOSITED" /\ \A a \in S : Backed(a, m)'
    BY <1>2, PlainBacked
  <1> QED BY <1>1, <1>3, <1>4, <1>5, <1>6, CalmStep

\* An authorization is new, so no escrow has its reference.
LEMMA GrantSafe ==
  ASSUME IInv, Grant
  PROVE  IInv'
  <1>1. PICK d : d = [round |-> round, to |-> winner, price |-> bids[winner]]
    OBVIOUS
  <1>2. PICK m, w : m = [type |-> "GRANT", round |-> round, issue |-> issue'] /\ w = winner
    OBVIOUS
  <1>3. /\ TypeOK' /\ Placed' /\ issue' \in Issues /\ Fresh(issue')
        /\ deal' = [deal EXCEPT ![issue'] = d]
        /\ d \in Deals /\ Post({w}, m)
    BY <1>1, <1>2, GrantTyped DEF IInv
  <1>4. /\ deal[issue'] = None /\ deal'[issue'] = d /\ d # None
        /\ \A i \in Issues : deal[i] # None => deal'[i] = deal[i]
    BY <1>3, NoneAssumption DEF Fresh, NoneAssumption, IInv, TypeOK
  <1>5. /\ UNCHANGED <<order, locked, progress, grants, job, round>>
        /\ pc' = "terms"
    BY DEF Grant, sellerVars, escrowVars
  <1>6. Grows
    BY <1>4, <1>5 DEF Grows
  <1>7. InRound'
    <2>1. round \in Rounds
      BY DEF IInv, Placed, Grant
    <2>2. PICK k : k = <<issue', round>>
      OBVIOUS
    <2>3. k \in References /\ k[1] = issue'
      BY <1>3, <2>1, <2>2 DEF References
    <2>4. order[k] = None
      BY <1>4, <2>3 DEF IInv, Escrows, Consented
    <2> QED BY <1>5, <2>2, <2>4 DEF InRound
  <1>8. Backed(w, m)' /\ m.type # "DEPOSITED"
    BY <1>1, <1>2, <1>4 DEF Backed, Granted
  <1>9. Tokens' /\ Escrows' /\ Jobs' /\ WorkIsFunded'
    BY <1>5, <1>6, TokensKept, EscrowsKept, WorkKept DEF IInv, Escrows
  <1> QED BY <1>3, <1>5, <1>6, <1>7, <1>8, <1>9, GrowingStep

\* The terms are those of a seller that verified our authorization.
LEMMA ReceiveTermsSafe ==
  ASSUME IInv, ReceiveTerms
  PROVE  IInv'
  <1>1. /\ TypeOK' /\ Placed' /\ Post({}, Plain)
        /\ \/ pc' = "sleep"
           \/ /\ pc' = "deposit" /\ UNCHANGED <<round, issue>>
              /\ terms'.reference = <<issue, round>>
              /\ \E n \in DOMAIN inbox[Buyer] : terms' = inbox[Buyer][n]
    BY ReceiveTermsTyped DEF IInv
  <1>2. Unchanging /\ UNCHANGED grants /\ pc = "terms"
    BY DEF ReceiveTerms, Unchanging, sellerVars, worldVars
  <1>3. Tokens' /\ Plain.type # "DEPOSITED"
    BY <1>2, UnchangingGrows, TokensKept DEF IInv, Plain
  <1>4. InRound'
    <2>1. CASE pc' = "sleep"
      BY <2>1, NoDealYet
    <2>2. CASE pc' = "deposit" /\ UNCHANGED <<round, issue>>
      <3>1. PICK n \in DOMAIN inbox[Buyer] : terms' = inbox[Buyer][n]
        BY <1>1, <2>2
      <3>2. inbox[Buyer][n].type = "ESCROW_REQUIRED"
        BY <1>1, <2>2, <3>1 DEF Placed, TermsMessage
      <3>3. Consented(terms'.reference, terms'.seller)
        BY <3>1, <3>2, Names DEF IInv, Mail, Backed
      <3>4. Consented(terms.reference, terms.seller)'
        BY <1>2, <3>3 DEF Consented, Unchanging, historyVars
      <3>5. order'[<<issue', round'>>] = None
        BY <1>2, <2>2 DEF IInv, InRound, Unchanging, escrowVars
      <3>6. terms'.reference = <<issue', round'>>
        BY <1>1, <2>2
      <3> QED BY <2>2, <3>4, <3>5, <3>6 DEF InRound
    <2> QED BY <1>1, <2>1, <2>2
  <1> QED BY <1>1, <1>2, <1>3, <1>4, CalmStep

\* A deposit: the escrow of a verified authorization that had none.
LEMMA DepositSafe ==
  ASSUME IInv, Deposit
  PROVE  IInv'
  <1>1. PICK k, w : k = terms.reference /\ w = terms.seller
    OBVIOUS
  <1>2. PICK o : o = [payee |-> w, place |-> "open"]
    OBVIOUS
  <1>3. /\ TypeOK' /\ Placed' /\ Post({}, Plain) /\ k \in References
        /\ UNCHANGED <<terms, historyVars, job>>
        /\ order' = [order EXCEPT ![k] = o] /\ o # None
        /\ locked' = [locked EXCEPT ![k] = terms.amount]
    BY <1>1, <1>2, DepositTyped DEF IInv
  <1>4. pc = "deposit" /\ pc' = "announce" /\ UNCHANGED <<grants, inbox>>
    BY DEF Deposit, sellerVars
  <1>5. order[k] = None /\ Consented(k, w)
    BY <1>1, <1>4 DEF IInv, InRound
  <1>6. progress[k] = "verified"
    <2>1. progress[k] \in {"none", "verified", "begun", "reported"}
      BY <1>3 DEF IInv, TypeOK
    <2> QED BY <1>3, <1>5, <2>1 DEF IInv, Escrows, Consented
  <1>7. order \in [References -> Settlement!OrderState] /\ locked \in [References -> Prices \cup {None}]
    BY DEF IInv, TypeOK, Settlement!TypeOK
  <1>8. order'[k] = o /\ \A j \in References \ {k} : order'[j] = order[j] /\ locked'[j] = locked[j]
    BY <1>3, <1>7
  <1>9. Grows
    BY <1>3, <1>5, <1>8 DEF Grows, historyVars
  <1>10. InRound'
    <2>1. ~ \E a \in Agents : \E n \in DOMAIN inbox[a] : IsDeposited(k, a, n)
      BY <1>5 DEF IInv, Mail, Backed, IsDeposited
    <2>2. \A a \in Agents : \A n \in DOMAIN inbox[a] : ~ IsDeposited(terms.reference, a, n)'
      BY <1>1, <1>3, <1>4, <2>1 DEF IsDeposited
    <2>3. Consented(terms.reference, terms.seller)'
      BY <1>1, <1>3, <1>5 DEF Consented, historyVars
    <2> QED BY <1>1, <1>3, <1>4, <1>6, <1>8, <2>2, <2>3 DEF InRound, historyVars
  <1>11. Escrows'
    <2>1. ASSUME NEW j \in References, order'[j] # None
          PROVE  Consented(j, order[j].payee)' /\ order'[j].place # "returned"
      <3>1. CASE j = k
        BY <1>2, <1>3, <1>5, <1>8, <3>1 DEF Consented, historyVars
      <3>2. CASE j # k
        BY <1>3, <1>8, <2>1, <3>2 DEF IInv, Escrows, Consented, historyVars
      <3> QED BY <3>1, <3>2
    <2>2. \A j \in References : progress'[j] \in {"begun", "reported"} => order'[j] # None
      BY <1>3, <1>8 DEF IInv, Escrows, historyVars
    <2> QED BY <2>1, <2>2 DEF Escrows
  <1>12. Jobs' /\ WorkIsFunded'
    BY <1>3, <1>9, WorkKept DEF IInv, historyVars
  <1>13. Tokens' /\ Plain.type # "DEPOSITED"
    BY <1>4, <1>9, TokensKept DEF IInv, Plain
  <1> QED BY <1>3, <1>9, <1>10, <1>11, <1>12, <1>13, GrowingStep DEF historyVars

\* The only step that posts a DEPOSITED.
LEMMA AnnounceSafe ==
  ASSUME IInv, Announce
  PROVE  IInv'
  <1>1. PICK k, m, w : /\ k = terms.reference /\ w = winner
                       /\ m = [type |-> "DEPOSITED", round |-> round, reference |-> k]
    OBVIOUS
  <1>2. TypeOK' /\ Placed' /\ k \in References /\ Post({w}, m)
    BY <1>1, AnnounceTyped DEF IInv
  <1>3. /\ Unchanging /\ UNCHANGED <<grants, terms, round, issue>> /\ pc = "announce" /\ pc' = "delivery"
        /\ Send({w}, m)
    BY <1>1 DEF Announce, Unchanging, sellerVars, worldVars
  <1>4. /\ order[k] # None /\ progress[k] = "verified" /\ Consented(k, terms.seller)
        /\ \A a \in Agents : \A n \in DOMAIN inbox[a] : ~ IsDeposited(k, a, n)
    BY <1>1, <1>3 DEF IInv, InRound
  <1>5. Backed(w, m)'
    BY <1>1, <1>3, <1>4 DEF Backed, Unchanging, escrowVars
  <1>6. Mail'
    BY <1>2, <1>3, <1>5, UnchangingGrows, MailKept DEF IInv
  <1>7. InRound'
    BY <1>1, <1>3, <1>4 DEF InRound, Consented, Unchanging, historyVars
  <1>8. inbox \in [Agents -> Seq(Messages)]
    BY DEF IInv, TypeOK
  <1>9. ASSUME NEW a \in Agents, NEW n \in DOMAIN inbox'[a]
        PROVE  \/ n \in DOMAIN inbox[a] /\ inbox'[a][n] = inbox[a][n]
               \/ a = w /\ n = Len(inbox[a]) + 1 /\ inbox'[a][n] = m
    <2>1. inbox'[a] = IF a = w THEN Append(inbox[a], m) ELSE inbox[a]
      BY <1>3 DEF Send
    <2>2. Len(inbox[a]) \in Nat /\ DOMAIN inbox[a] = 1 .. Len(inbox[a])
      BY <1>8, LenProperties
    <2>3. CASE a = w
      <3>1. PICK x : x = m
        OBVIOUS
      <3>2. PICK s \in Seq(Messages) : s = inbox[a]
        BY <1>8
      <3>3. PICK t : t = Append(s, x)
        OBVIOUS
      <3>4. x \in Messages
        BY <1>1, <1>2, <3>1, MessagesMade DEF IInv, Placed, Announce
      <3>5. /\ t \in Seq(Messages) /\ Len(t) = Len(s) + 1 /\ t[Len(s) + 1] = x
            /\ \A i \in 1 .. Len(s) : t[i] = s[i]
        BY <3>3, <3>4, AppendProperties
      <3>6. DOMAIN t = 1 .. Len(s) + 1
        BY <3>5, LenProperties
      <3>7. inbox'[a] = t
        BY <2>1, <2>3, <3>1, <3>2, <3>3
      <3>8. n \in 1 .. Len(s) \/ n = Len(s) + 1
        BY <1>9, <2>2, <3>2, <3>6, <3>7
      <3> QED BY <2>2, <2>3, <3>1, <3>2, <3>5, <3>7, <3>8
    <2>4. CASE a # w
      BY <1>9, <2>1, <2>4
    <2> QED BY <2>3, <2>4
  <1>10. AnnouncedOnce'
    <2> SUFFICES ASSUME NEW j \in References, NEW a \in Agents, NEW n \in DOMAIN inbox'[a],
                        IsDeposited(j, a, n)'
                 PROVE  /\ progress'[j] = "verified"
                        /\ \A b \in Agents : \A p \in DOMAIN inbox'[b] : IsDeposited(j, b, p)' => a = b /\ n = p
      BY DEF AnnouncedOnce
    <2>1. UNCHANGED progress
      BY <1>3 DEF Unchanging, historyVars
    <2>2. CASE j = k
      <3>1. ASSUME NEW b \in Agents, NEW p \in DOMAIN inbox'[b], IsDeposited(j, b, p)'
            PROVE  b = w /\ p = Len(inbox[w]) + 1
        BY <1>4, <1>9, <2>2, <3>1 DEF IsDeposited
      <3> QED BY <1>4, <2>1, <2>2, <3>1
    <2>3. CASE j # k
      <3>1. ASSUME NEW b \in Agents, NEW p \in DOMAIN inbox'[b], IsDeposited(j, b, p)'
            PROVE  p \in DOMAIN inbox[b] /\ IsDeposited(j, b, p)
        BY <1>1, <1>9, <2>3, <3>1 DEF IsDeposited
      <3> QED BY <2>1, <3>1 DEF IInv, AnnouncedOnce
    <2> QED BY <2>2, <2>3
  <1>11. Tokens' /\ Escrows' /\ Jobs' /\ WorkIsFunded'
    BY <1>3, UnchangingGrows, TokensKept, EscrowsKept, WorkKept
       DEF IInv, Escrows, Unchanging, escrowVars, historyVars
  <1> QED BY <1>2, <1>6, <1>7, <1>10, <1>11 DEF IInv

LEMMA ReceiveReportSafe ==
  ASSUME IInv, ReceiveReport
  PROVE  IInv'
  <1>1. /\ TypeOK' /\ Placed' /\ Post({}, Plain)
        /\ \/ pc' = "sleep"
           \/ pc' = "release" /\ UNCHANGED <<round, issue, terms>>
    BY ReceiveReportTyped DEF IInv
  <1>2. Unchanging /\ UNCHANGED grants /\ pc = "delivery"
    BY DEF ReceiveReport, Unchanging, sellerVars, worldVars
  <1>3. Tokens' /\ Plain.type # "DEPOSITED"
    BY <1>2, UnchangingGrows, TokensKept DEF IInv, Plain
  <1>4. InRound'
    <2>1. CASE pc' = "sleep"
      BY <2>1, NoDealYet
    <2>2. CASE pc' = "release" /\ UNCHANGED <<round, issue, terms>>
      BY <1>2, <2>2 DEF IInv, InRound, Consented, Unchanging, historyVars
    <2> QED BY <1>1, <2>1, <2>2
  <1> QED BY <1>1, <1>2, <1>3, <1>4, CalmStep

\* A payment or a deadline: one escrow moves, and keeps its payee.
LEMMA MoveSafe ==
  ASSUME IInv, TypeOK', Placed', Post({}, Plain), UNCHANGED <<locked, historyVars, sellerVars>>,
         NEW k \in References, Settlement!Locked(k), NEW place \in {"paid", "matured"},
         order' = [order EXCEPT ![k] = [order[k] EXCEPT !.place = place]],
         pc' = "sleep" \/ UNCHANGED buyerVars
  PROVE  IInv'
  <1>1. place \in Settlement!Places
    BY DEF Settlement!Places
  <1>2. /\ order[k] # None /\ order'[k] # None /\ order'[k].payee = order[k].payee /\ order'[k].place = place
        /\ \A j \in References \ {k} : order'[j] = order[j]
    BY <1>1, MoveTyped DEF IInv
  <1>3. Grows
    BY <1>2 DEF Grows, historyVars
  <1>4. \A j \in References : order[j] = None => order'[j] = None
    BY <1>2
  <1>5. UNCHANGED <<grants, job, progress>> /\ Plain.type # "DEPOSITED"
    BY DEF sellerVars, historyVars, Plain
  <1>6. Tokens' /\ Escrows' /\ Jobs' /\ WorkIsFunded'
    BY <1>3, <1>4, <1>5, TokensKept, EscrowsKept, WorkKept DEF IInv, Escrows
  <1>7. InRound' \/ UNCHANGED <<pc, round, issue, terms>>
    BY NoDealYet DEF buyerVars
  <1> QED BY <1>3, <1>4, <1>5, <1>6, <1>7, GrowingStep

LEMMA PaySafe ==
  ASSUME IInv, Pay
  PROVE  IInv'
  <1>1. /\ TypeOK' /\ Placed' /\ Post({}, Plain) /\ pc' = "sleep"
        /\ terms.reference \in References /\ Settlement!Locked(terms.reference)
        /\ order' = [order EXCEPT ![terms.reference] = [order[terms.reference] EXCEPT !.place = "paid"]]
    BY PayTyped DEF IInv
  <1>2. UNCHANGED <<locked, historyVars, sellerVars>>
    BY DEF Pay, PayOut
  <1> QED BY <1>1, <1>2, MoveSafe

LEMMA MailOnlySafe ==
  ASSUME IInv, Discard \/ (\E a \in Agents : Lose(a))
  PROVE  IInv'
  <1>1. /\ TypeOK' /\ Placed' /\ Post({}, Plain)
        /\ UNCHANGED <<buyerVars, sellerVars, escrowVars, historyVars>>
    BY MailOnlyTyped DEF IInv
  <1>2. Unchanging /\ UNCHANGED <<grants, pc, round, issue, terms>>
    BY <1>1 DEF Unchanging, sellerVars, buyerVars
  <1>3. Tokens' /\ Plain.type # "DEPOSITED"
    BY <1>2, UnchangingGrows, TokensKept DEF IInv, Plain
  <1> QED BY <1>1, <1>2, <1>3, CalmStep

LEMMA BuyerRestartsSafe ==
  ASSUME IInv, BuyerRestarts
  PROVE  IInv'
  <1>1. TypeOK' /\ Placed' /\ Post({}, Plain) /\ pc' = "sleep"
    BY BuyerRestartsTyped DEF IInv
  <1>2. Unchanging /\ UNCHANGED grants
    BY DEF BuyerRestarts, Unchanging, sellerVars
  <1>3. Tokens' /\ InRound' /\ Plain.type # "DEPOSITED"
    BY <1>1, <1>2, UnchangingGrows, TokensKept, NoDealYet DEF IInv, Plain
  <1> QED BY <1>1, <1>2, <1>3, CalmStep
-----------------------------------------------------------------------------
(***************************************************************************)
(* The sellers' steps, and those of time.                                  *)
(***************************************************************************)
LEMMA SellerRestartsSafe ==
  ASSUME IInv, NEW s \in Sellers, SellerRestarts(s)
  PROVE  IInv'
  <1>1. /\ TypeOK' /\ Placed' /\ Post({}, Plain) /\ UNCHANGED <<buyerVars, escrowVars, historyVars>>
        /\ grants' = [grants EXCEPT ![s] = Empty(Rounds)] /\ job' = [job EXCEPT ![s] = None]
    BY SellerRestartsTyped DEF IInv
  <1>2. Grows
    BY <1>1 DEF Grows, escrowVars, historyVars
  <1>3. Tokens'
    <2>1. \A t \in Sellers, r \in Rounds : grants'[t][r] # None => grants'[t][r] = grants[t][r]
      BY <1>1 DEF IInv, TypeOK, Empty
    <2> QED BY <1>1, <2>1 DEF IInv, Tokens, Granted, historyVars
  <1>4. \A t \in Sellers : job'[t] # None => job'[t] = job[t]
    BY <1>1 DEF IInv, TypeOK
  <1>5. Escrows' /\ Jobs' /\ WorkIsFunded'
    BY <1>1, <1>2, <1>4, EscrowsKept, WorkKept DEF IInv, Escrows, escrowVars, historyVars
  <1>6. UNCHANGED <<pc, round, issue, terms, order, progress>> /\ Plain.type # "DEPOSITED"
    BY <1>1 DEF buyerVars, escrowVars, historyVars, Plain
  <1> QED BY <1>1, <1>2, <1>3, <1>5, <1>6, GrowingStep

LEMMA ReceiveWantSafe ==
  ASSUME IInv, NEW s \in Sellers, NEW n \in Readable(s), ReceiveWant(s, n)
  PROVE  IInv'
  <1>1. /\ TypeOK' /\ Placed' /\ UNCHANGED <<buyerVars, escrowVars, historyVars, job, grants>>
        /\ \E S, m : Post(S, m) /\ m.type = "BID"
    BY ReceiveWantTyped DEF IInv
  <1>2. PICK S, m : Post(S, m) /\ m.type = "BID"
    BY <1>1
  <1>3. Unchanging /\ UNCHANGED <<pc, round, issue, terms>>
    BY <1>1 DEF Unchanging, buyerVars
  <1>4. Tokens'
    BY <1>1, <1>3, UnchangingGrows, TokensKept DEF IInv
  <1>5. m.type # "DEPOSITED" /\ \A a \in S : Backed(a, m)'
    BY <1>2, PlainBacked
  <1> QED BY <1>1, <1>2, <1>3, <1>4, <1>5, CalmStep

\* Terms go out only under an authorization that was issued to this very
\* seller, for this very round, and that it has verified.
LEMMA ProceedSafe ==
  ASSUME IInv, TypeOK', Placed', NEW s \in Sellers, NEW n \in DOMAIN inbox[s], NEW r \in Rounds,
         NEW prices \in [Rounds -> Prices \cup {None}], NEW tokens \in [Rounds -> Issues \cup {None}],
         ProceedIfReady(s, n, r, prices, tokens),
         \A q \in Rounds : tokens[q] # None => Granted(tokens[q], s, q),
         UNCHANGED <<buyerVars, escrowVars, deal, job>>
  PROVE  IInv'
  <1>1. /\ \E t \in [Rounds -> Issues \cup {None}] :
             /\ grants' = [grants EXCEPT ![s] = t]
             /\ \A q \in Rounds : t[q] \in {tokens[q], None}
        /\ \/ UNCHANGED progress /\ \E S, m : Post(S, m) /\ m.type = "WANT"
           \/ /\ tokens[r] # None /\ <<tokens[r], r>> \in References
              /\ progress' = [progress EXCEPT ![<<tokens[r], r>>] = IF @ = "none" THEN "verified" ELSE @]
              /\ Post({Buyer}, [type |-> "ESCROW_REQUIRED", round |-> r, reference |-> <<tokens[r], r>>,
                                seller |-> WalletOf[s], amount |-> prices[r],
                                arbitrated |-> s \in ArbiterSellers])
    BY ProceedTyped DEF IInv
  <1>2. UNCHANGED <<pc, round, issue, terms, order, locked>>
    BY DEF buyerVars, escrowVars
  <1>3. progress \in [References -> {"none", "verified", "begun", "reported"}]
    BY DEF IInv, TypeOK
  <1>4. \A k \in References : progress[k] # "none" => progress'[k] = progress[k]
    BY <1>1, <1>3
  <1>5. \A k \in References : progress'[k] \in {"begun", "reported"} => progress[k] = progress'[k]
    BY <1>1, <1>3
  <1>6. Grows
    BY <1>2, <1>4 DEF Grows
  <1>7. Tokens'
    <2>1. PICK t \in [Rounds -> Issues \cup {None}] :
             /\ grants' = [grants EXCEPT ![s] = t]
             /\ \A q \in Rounds : t[q] \in {tokens[q], None}
      BY <1>1
    <2>2. \A q \in Rounds : grants'[s][q] # None => Granted(grants'[s][q], s, q)
      BY <2>1 DEF IInv, TypeOK
    <2>3. \A u \in Sellers \ {s} : grants'[u] = grants[u]
      BY <2>1 DEF IInv, TypeOK
    <2>4. \A u \in Sellers, q \in Rounds : grants'[u][q] # None => Granted(grants'[u][q], u, q)
      BY <2>2, <2>3 DEF IInv, Tokens
    <2> QED BY <2>4 DEF Tokens, Granted
  <1>8. Escrows' /\ Jobs' /\ WorkIsFunded'
    BY <1>2, <1>4, <1>5, <1>6, EscrowsKept, WorkKept DEF IInv, Escrows
  <1>9. \E S, m : Post(S, m) /\ m.type # "DEPOSITED" /\ \A a \in S : Backed(a, m)'
    <2>1. CASE UNCHANGED progress /\ \E S, m : Post(S, m) /\ m.type = "WANT"
      BY <2>1, PlainBacked
    <2>2. CASE /\ tokens[r] # None /\ <<tokens[r], r>> \in References
               /\ progress' = [progress EXCEPT ![<<tokens[r], r>>] = IF @ = "none" THEN "verified" ELSE @]
               /\ Post({Buyer}, [type |-> "ESCROW_REQUIRED", round |-> r, reference |-> <<tokens[r], r>>,
                                 seller |-> WalletOf[s], amount |-> prices[r],
                                 arbitrated |-> s \in ArbiterSellers])
      <3>1. PICK k \in References : k = <<tokens[r], r>>
        BY <2>2
      <3>2. k[1] = tokens[r] /\ k[2] = r
        BY <3>1
      <3>3. progress'[k] # "none"
        BY <1>3, <2>2, <3>1
      <3>4. Granted(k[1], s, k[2])
        BY <2>2, <3>2
      <3>5. Consented(k, WalletOf[s])'
        BY <3>3, <3>4 DEF Consented, Granted
      <3>6. PICK m : m = [type |-> "ESCROW_REQUIRED", round |-> r, reference |-> k,
                          seller |-> WalletOf[s], amount |-> prices[r],
                          arbitrated |-> s \in ArbiterSellers]
        OBVIOUS
      <3>7. PICK w : w = WalletOf[s]
        OBVIOUS
      <3>8. m.type = "ESCROW_REQUIRED" /\ m.reference = k /\ m.seller = w
        BY <3>6, <3>7
      <3>9. Backed(Buyer, m)'
        BY <3>5, <3>7, <3>8 DEF Backed, Consented
      <3>10. Post({Buyer}, m)
        BY <2>2, <3>1, <3>6
      <3> QED BY <3>8, <3>9, <3>10
    <2> QED BY <1>1, <2>1, <2>2
  <1>10. PICK S, m : Post(S, m) /\ m.type # "DEPOSITED" /\ \A a \in S : Backed(a, m)'
    BY <1>9
  <1>11. \A k \in References : progress[k] = "verified" => progress'[k] = "verified"
    BY <1>4
  <1>12. \A k \in References : progress[k] \in {"begun", "reported"} => progress'[k] \in {"begun", "reported"}
    BY <1>4
  <1> QED BY <1>2, <1>6, <1>7, <1>8, <1>10, <1>11, <1>12, GrowingStep

LEMMA ReceiveGrantSafe ==
  ASSUME IInv, NEW s \in Sellers, NEW n \in Readable(s), ReceiveGrant(s, n)
  PROVE  IInv'
  <1>1. PICK m, tokens : m = inbox[s][n] /\ tokens = [grants[s] EXCEPT ![m.round] = m.issue]
    OBVIOUS
  <1>2. /\ TypeOK' /\ Placed' /\ UNCHANGED <<buyerVars, escrowVars, deal, job>>
        /\ n \in DOMAIN inbox[s] /\ m \in Messages /\ m.type = "GRANT"
        /\ m.round \in Rounds /\ tokens \in [Rounds -> Issues \cup {None}]
        /\ \E prices \in [Rounds -> Prices \cup {None}] : ProceedIfReady(s, n, m.round, prices, tokens)
    BY <1>1, ReceiveGrantTyped DEF IInv
  <1>3. Granted(m.issue, s, m.round)
    BY <1>1, <1>2, Names DEF IInv, Mail, Backed
  <1>4. \A q \in Rounds : tokens[q] # None => Granted(tokens[q], s, q)
    <2>1. grants[s] \in [Rounds -> Issues \cup {None}]
      BY DEF IInv, TypeOK
    <2>2. \A q \in Rounds : tokens[q] = IF q = m.round THEN m.issue ELSE grants[s][q]
      BY <1>1, <2>1
    <2> QED BY <1>3, <2>2 DEF IInv, Tokens
  <1> QED BY <1>2, <1>4, ProceedSafe

LEMMA ReceiveAwardSafe ==
  ASSUME IInv, NEW s \in Sellers, NEW n \in Readable(s), ReceiveAward(s, n)
  PROVE  IInv'
  <1>1. PICK m : m = inbox[s][n]
    OBVIOUS
  <1>2. /\ TypeOK' /\ Placed' /\ UNCHANGED <<buyerVars, escrowVars, deal, job>>
        /\ n \in DOMAIN inbox[s] /\ m.round \in Rounds
        /\ \/ UNCHANGED <<grants, progress>> /\ Take(s, n)
           \/ \E prices \in [Rounds -> Prices \cup {None}] : ProceedIfReady(s, n, m.round, prices, grants[s])
    BY <1>1, ReceiveAwardTyped DEF IInv
  <1>3. CASE UNCHANGED <<grants, progress>> /\ Take(s, n)
    <2>1. Unchanging /\ UNCHANGED <<pc, round, issue, terms>>
      BY <1>2, <1>3 DEF Unchanging, buyerVars, historyVars
    <2>2. Post({}, Plain)
      BY <1>2, <1>3, Names, TakePosts DEF IInv
    <2>3. Tokens' /\ Plain.type # "DEPOSITED"
      BY <1>3, <2>1, UnchangingGrows, TokensKept DEF IInv, Plain
    <2> QED BY <1>2, <2>1, <2>2, <2>3, CalmStep
  <1>4. ASSUME NEW prices \in [Rounds -> Prices \cup {None}], ProceedIfReady(s, n, m.round, prices, grants[s])
        PROVE  IInv'
    <2>1. grants[s] \in [Rounds -> Issues \cup {None}]
      BY DEF IInv, TypeOK
    <2>2. \A q \in Rounds : grants[s][q] # None => Granted(grants[s][q], s, q)
      BY DEF IInv, Tokens
    <2> QED BY <1>2, <1>4, <2>1, <2>2, ProceedSafe
  <1> QED BY <1>2, <1>3, <1>4

\* The deposit that is taken was the only one of its reference, so its work
\* begins with no other announcement around.
LEMMA ReceiveDepositedSafe ==
  ASSUME IInv, NEW s \in Sellers, NEW n \in Readable(s), ReceiveDeposited(s, n)
  PROVE  IInv' /\ progress[inbox[s][n].reference] = "verified"
  <1>1. PICK k : k = inbox[s][n].reference
    OBVIOUS
  <1>2. /\ TypeOK' /\ Placed' /\ UNCHANGED <<buyerVars, escrowVars, deal, grants>>
        /\ n \in DOMAIN inbox[s] /\ k \in References /\ inbox[s][n].type = "DEPOSITED" /\ Take(s, n)
        /\ \/ UNCHANGED <<job, progress>>
           \/ /\ Funded(s, k) /\ awarded[s][k] \in Prices
              /\ job' = [job EXCEPT ![s] = [reference |-> k, price |-> awarded[s][k], stage |-> "checking"]]
              /\ progress' = [progress EXCEPT ![k] = "begun"]
    BY <1>1, ReceiveDepositedTyped DEF IInv
  <1>3. UNCHANGED <<pc, round, issue, terms, order, locked>>
    BY <1>2 DEF buyerVars, escrowVars
  <1>4. s \in Agents /\ IsDeposited(k, s, n)
    BY <1>1, <1>2, Names DEF IsDeposited
  <1>5. progress[k] = "verified"
    BY <1>2, <1>4 DEF IInv, AnnouncedOnce
  <1>6. Post({}, Plain) /\ Plain.type # "DEPOSITED"
    BY <1>2, <1>4, TakePosts DEF IInv, Plain
  <1>7. CASE UNCHANGED <<job, progress>>
    <2>1. Unchanging
      BY <1>2, <1>7 DEF Unchanging, historyVars
    <2>2. Tokens'
      BY <1>2, <2>1, UnchangingGrows, TokensKept DEF IInv
    <2> QED BY <1>1, <1>2, <1>3, <1>5, <1>6, <2>1, <2>2, CalmStep
  <1>8. CASE /\ Funded(s, k) /\ awarded[s][k] \in Prices
             /\ job' = [job EXCEPT ![s] = [reference |-> k, price |-> awarded[s][k], stage |-> "checking"]]
             /\ progress' = [progress EXCEPT ![k] = "begun"]
    <2>1. progress \in [References -> {"none", "verified", "begun", "reported"}]
      BY DEF IInv, TypeOK
    <2>2. progress'[k] = "begun" /\ \A j \in References \ {k} : progress'[j] = progress[j]
      BY <1>2, <1>8, <2>1
    <2>3. Grows
      BY <1>2, <1>3, <2>2 DEF Grows
    <2>4. Tokens' /\ Mail'
      BY <1>2, <1>6, <2>3, TokensKept, MailKept DEF IInv
    <2>5. /\ order[k] # None /\ order[k].payee = WalletOf[s] /\ order[k].place # "returned"
          /\ locked[k] >= awarded[s][k]
      BY <1>2, <1>8 DEF Funded, Settlement!Locked, IInv, Escrows
    <2>6. Escrows'
      BY <1>3, <2>2, <2>3, <2>5, EscrowsKept DEF IInv, Escrows
    <2>7. job'[s] = [reference |-> k, price |-> awarded[s][k], stage |-> "checking"]
          /\ \A t \in Sellers \ {s} : job'[t] = job[t]
      BY <1>8 DEF IInv, TypeOK
    <2>8. \A t \in Sellers : job[t] # None => job[t].reference \in References
      BY DEF IInv, TypeOK
    <2>9. Jobs'
      BY <2>2, <2>7, <2>8 DEF IInv, Jobs
    <2>10. WorkIsFunded'
      BY <1>3, <2>5, <2>7 DEF IInv, WorkIsFunded
    <2>11. /\ inbox' \in [Agents -> Seq(Messages)]
           /\ Came(inbox'[s], inbox[s], {}, {n})
           /\ \A b \in Agents \ {s} : Came(inbox'[b], inbox[b], {}, {})
      BY <1>2, <1>4, TakenAway DEF IInv
    <2>12. \A a \in Agents : \E f \in [DOMAIN inbox'[a] -> Nat] :
             /\ \A i, j \in DOMAIN inbox'[a] : f[i] = f[j] => i = j
             /\ \A i \in DOMAIN inbox'[a] :
                  /\ a = s => f[i] # n
                  /\ f[i] \in DOMAIN inbox[a] /\ inbox'[a][i] = inbox[a][f[i]]
      <3> TAKE a \in Agents
      <3>1. CASE a = s
        BY <2>11, <3>1 DEF Came
      <3>2. CASE a # s
        BY <2>11, <3>2 DEF Came
      <3> QED BY <3>1, <3>2
    <2>13. \A a \in Agents : \A i \in DOMAIN inbox'[a] : ~ IsDeposited(k, a, i)'
      <3> SUFFICES ASSUME NEW a \in Agents, NEW i \in DOMAIN inbox'[a], IsDeposited(k, a, i)'
                   PROVE  FALSE
        OBVIOUS
      <3>1. PICK p \in DOMAIN inbox[a] : (a = s => p # n) /\ inbox'[a][i] = inbox[a][p]
        BY <2>12
      <3>2. IsDeposited(k, a, p)
        BY <3>1 DEF IsDeposited
      <3> QED BY <1>2, <1>4, <3>1, <3>2 DEF IInv, AnnouncedOnce
    <2>14. AnnouncedOnce'
      <3> SUFFICES ASSUME NEW j \in References, NEW a \in Agents, NEW i \in DOMAIN inbox'[a],
                          IsDeposited(j, a, i)'
                   PROVE  /\ progress'[j] = "verified"
                          /\ \A b \in Agents : \A p \in DOMAIN inbox'[b] : IsDeposited(j, b, p)' => a = b /\ i = p
        BY DEF AnnouncedOnce
      <3>1. j # k
        BY <2>13
      <3>2. ASSUME NEW b \in Agents, NEW p \in DOMAIN inbox'[b], IsDeposited(j, b, p)'
            PROVE  \E q \in DOMAIN inbox[b] : IsDeposited(j, b, q)
        BY <2>12, <3>2 DEF IsDeposited
      <3>3. progress'[j] = "verified"
        BY <2>2, <3>1, <3>2 DEF IInv, AnnouncedOnce
      <3>4. ASSUME NEW b \in Agents, NEW p \in DOMAIN inbox'[b], IsDeposited(j, b, p)'
            PROVE  a = b /\ i = p
        <4>1. a = b
          BY <3>2, <3>4 DEF IInv, AnnouncedOnce
        <4>2. PICK f \in [DOMAIN inbox'[a] -> Nat] :
                /\ \A x, y \in DOMAIN inbox'[a] : f[x] = f[y] => x = y
                /\ \A x \in DOMAIN inbox'[a] :
                     f[x] \in DOMAIN inbox[a] /\ inbox'[a][x] = inbox[a][f[x]]
          BY <2>12
        <4>3. /\ f[i] \in DOMAIN inbox[a] /\ IsDeposited(j, a, f[i])
              /\ f[p] \in DOMAIN inbox[a] /\ IsDeposited(j, a, f[p])
          BY <3>4, <4>1, <4>2 DEF IsDeposited
        <4>4. f[i] = f[p]
          BY <4>3 DEF IInv, AnnouncedOnce
        <4> QED BY <3>4, <4>1, <4>2, <4>4
      <3> QED BY <3>3, <3>4
    <2>15. InRound'
      <3>1. pc = "announce" => terms.reference # k
        BY <1>2, <1>4 DEF IInv, InRound
      <3>2. pc \in {"deposit", "announce", "delivery", "release"} =>
              terms.reference \in References /\ Consented(terms.reference, terms.seller)
        BY DEF IInv, InRound, Placed, TermsMessage
      <3>3. pc \in {"deposit", "announce", "delivery", "release"} => Consented(terms.reference, terms.seller)'
        BY <1>3, <2>3, <3>2, ConsentedGrows DEF Consented
      <3>4. pc = "announce" =>
              \A a \in Agents : \A i \in DOMAIN inbox'[a] : ~ IsDeposited(terms.reference, a, i)'
        BY <1>3, <2>12 DEF IInv, InRound, IsDeposited
      <3>5. pc = "announce" => order'[terms.reference] # None /\ progress'[terms.reference] = "verified"
        BY <1>3, <2>2, <3>1, <3>2 DEF IInv, InRound
      <3> QED BY <1>3, <3>3, <3>4, <3>5 DEF IInv, InRound
    <2> QED BY <1>1, <1>2, <1>5, <2>4, <2>6, <2>9, <2>10, <2>14, <2>15 DEF IInv
  <1> QED BY <1>2, <1>7, <1>8

LEMMA JobSafe ==
  ASSUME IInv, NEW s \in Sellers, StartScan(s) \/ Deliver(s) \/ Abandon(s)
  PROVE  IInv' /\ \A t \in Sellers : job[t] = None => job'[t] = None
  <1>1. /\ TypeOK' /\ Placed' /\ UNCHANGED <<buyerVars, escrowVars, deal, grants>>
        /\ \E S, m : Post(S, m) /\ m.type = "DELIVERED"
        /\ job[s] # None /\ job[s].reference \in References
        /\ \/ job' = [job EXCEPT ![s].stage = "scanning"] /\ UNCHANGED progress
           \/ job' = [job EXCEPT ![s] = None] /\ UNCHANGED progress
           \/ /\ job' = [job EXCEPT ![s] = None]
              /\ progress' = [progress EXCEPT ![job[s].reference] = "reported"]
    BY JobTyped DEF IInv
  <1>2. UNCHANGED <<pc, round, issue, terms, order, locked>>
    BY <1>1 DEF buyerVars, escrowVars
  <1>3. PICK k \in References : k = job[s].reference
    BY <1>1
  <1>4. progress[k] \in {"begun", "reported"} /\ order[k] # None
    BY <1>1, <1>3 DEF IInv, Jobs, Escrows
  <1>5. /\ \A j \in References \ {k} : progress'[j] = progress[j]
        /\ progress'[k] \in {"begun", "reported"}
    BY <1>1, <1>3, <1>4 DEF IInv, TypeOK
  <1>6. Grows
    BY <1>1, <1>2, <1>5 DEF Grows
  <1>7. \A t \in Sellers : job'[t] # None =>
          job[t] # None /\ job'[t].reference = job[t].reference /\ job'[t].price = job[t].price
    <2>1. job \in [Sellers -> JobRecord \cup {None}]
      BY DEF IInv, TypeOK, JobRecord
    <2>2. CASE job' = [job EXCEPT ![s].stage = "scanning"]
      BY <1>1, <2>1, <2>2 DEF JobRecord
    <2>3. CASE job' = [job EXCEPT ![s] = None]
      BY <2>1, <2>3
    <2> QED BY <1>1, <2>2, <2>3
  <1>8. Tokens' /\ Escrows' /\ Jobs' /\ WorkIsFunded'
    <2>1. Tokens'
      BY <1>1, <1>6, TokensKept DEF IInv
    <2>2. \A j \in References : progress'[j] \in {"begun", "reported"} => order[j] # None
      BY <1>4, <1>5 DEF IInv, Escrows
    <2>3. Escrows'
      BY <1>2, <1>6, <2>2, EscrowsKept DEF IInv
    <2>4. Jobs' /\ WorkIsFunded'
      BY <1>5, <1>6, <1>7, WorkKept DEF IInv
    <2> QED BY <2>1, <2>3, <2>4
  <1>9. PICK S, m : Post(S, m) /\ m.type = "DELIVERED"
    BY <1>1
  <1>10. m.type # "DEPOSITED" /\ \A a \in S : Backed(a, m)'
    BY <1>9, PlainBacked
  <1>11. /\ \A j \in References : progress[j] = "verified" => progress'[j] = "verified"
         /\ \A j \in References : progress[j] \in {"begun", "reported"} => progress'[j] \in {"begun", "reported"}
    BY <1>4, <1>5
  <1>12. IInv'
    BY <1>1, <1>2, <1>6, <1>8, <1>9, <1>10, <1>11, GrowingStep
  <1> QED BY <1>7, <1>12

LEMMA TimeSafe ==
  ASSUME IInv, (\E i \in Issues : Lapse(i)) \/ (\E k \in References : DeadlinePasses(k))
  PROVE  IInv'
  <1>1. /\ TypeOK' /\ Placed' /\ Post({}, Plain) /\ UNCHANGED <<buyerVars, sellerVars, locked, historyVars>>
        /\ \/ UNCHANGED order
           \/ \E k \in References :
                /\ Settlement!Locked(k)
                /\ order' = [order EXCEPT ![k] = [order[k] EXCEPT !.place = "matured"]]
    BY TimeTyped DEF IInv
  <1>2. CASE UNCHANGED order
    <2>1. Unchanging /\ UNCHANGED <<grants, pc, round, issue, terms>>
      BY <1>1, <1>2 DEF Unchanging, escrowVars, sellerVars, buyerVars
    <2>2. Tokens' /\ Plain.type # "DEPOSITED"
      BY <2>1, UnchangingGrows, TokensKept DEF IInv, Plain
    <2> QED BY <1>1, <2>1, <2>2, CalmStep
  <1>3. ASSUME NEW k \in References, Settlement!Locked(k),
               order' = [order EXCEPT ![k] = [order[k] EXCEPT !.place = "matured"]]
        PROVE  IInv'
    BY <1>1, <1>3, MoveSafe
  <1> QED BY <1>1, <1>2, <1>3
-----------------------------------------------------------------------------
(***************************************************************************)
(* The theorems.                                                           *)
(***************************************************************************)
LEMMA InitSafe ==
  ASSUME Init
  PROVE  IInv
  <1>1. {MaxRound, MaxRestarts, MaxCrashes} \subseteq Nat /\ FaultModes \subseteq BOOLEAN
    BY MarketAssumption DEF MarketAssumption
  <1>2. inbox \in [Agents -> Seq(Messages)] /\ \A a \in Agents : DOMAIN inbox[a] = {}
    <2>1. <<>> \in Seq(Messages) /\ DOMAIN <<>> = {}
      BY EmptySeq, LenProperties
    <2> QED BY <2>1 DEF Init
  <1>3. Settlement!TypeOK
    BY DEF Init, Settlement!Init, Settlement!TypeOK, Settlement!OrderState
  <1>4. TypeOK
    BY <1>1, <1>2, <1>3 DEF Init, TypeOK, Empty
  <1>5. \A k \in References : order[k] = None /\ progress[k] = "none"
    BY DEF Init, Settlement!Init
  <1>6. Tokens /\ Jobs /\ WorkIsFunded
    BY DEF Init, Empty, Tokens, Jobs, WorkIsFunded
  <1>7. Placed /\ InRound
    BY DEF Init, Placed, InRound
  <1>8. Mail /\ AnnouncedOnce
    BY <1>2 DEF Mail, AnnouncedOnce
  <1>9. Escrows
    BY <1>5 DEF Escrows
  <1> QED BY <1>4, <1>6, <1>7, <1>8, <1>9 DEF IInv

\* What a step of a seller's reading does to the jobs.
LEMMA ReadSafe ==
  ASSUME IInv, NEW s \in Sellers, Read(s)
  PROVE  /\ IInv'
         /\ \A t \in Sellers : job[t] = None /\ job'[t] # None => progress[job'[t].reference] = "verified"
  <1>1. PICK n \in Readable(s) :
          \/ ReceiveWant(s, n) \/ ReceiveGrant(s, n) \/ ReceiveAward(s, n) \/ ReceiveDeposited(s, n)
    BY DEF Read
  <1>2. CASE ReceiveWant(s, n)
    BY <1>2, ReceiveWantSafe DEF ReceiveWant
  <1>3. CASE ReceiveGrant(s, n)
    BY <1>3, ReceiveGrantSafe DEF ReceiveGrant
  <1>4. CASE ReceiveAward(s, n)
    BY <1>4, ReceiveAwardSafe DEF ReceiveAward
  <1>5. CASE ReceiveDeposited(s, n)
    <2>1. PICK k : k = inbox[s][n].reference
      OBVIOUS
    <2>2. IInv' /\ progress[k] = "verified"
      BY <1>5, <2>1, ReceiveDepositedSafe
    <2>3. \/ UNCHANGED job
          \/ job' = [job EXCEPT ![s] = [reference |-> k, price |-> awarded[s][k], stage |-> "checking"]]
      BY <1>5, <2>1, ReceiveDepositedTyped DEF IInv
    <2>4. job \in [Sellers -> JobRecord \cup {None}]
      BY DEF IInv, TypeOK, JobRecord
    <2>5. \A t \in Sellers : job[t] = None /\ job'[t] # None => job'[t].reference = k
      BY <2>3, <2>4
    <2> QED BY <2>2, <2>5
  <1> QED BY <1>1, <1>2, <1>3, <1>4, <1>5

LEMMA StepSafe ==
  ASSUME IInv, [Next]_vars
  PROVE  /\ IInv'
         /\ \A t \in Sellers : job[t] = None /\ job'[t] # None => progress[job'[t].reference] = "verified"
  <1>1. CASE BuyerStep
    <2>1. UNCHANGED job
      BY <1>1 DEF BuyerStep, Want, CollectBid, NoSellers, Award, Grant, ReceiveTerms, Deposit, Announce,
                  ReceiveReport, Pay, Discard, RoundFails, sellerVars
    <2>2. IInv'
      BY <1>1, WantSafe, CollectBidSafe, RoundFailsSafe, AwardSafe, GrantSafe, ReceiveTermsSafe, DepositSafe,
         AnnounceSafe, ReceiveReportSafe, PaySafe, MailOnlySafe DEF BuyerStep
    <2> QED BY <2>1, <2>2
  <1>2. ASSUME NEW s \in Sellers, SellerStep(s)
        PROVE  /\ IInv'
               /\ \A t \in Sellers : job[t] = None /\ job'[t] # None => progress[job'[t].reference] = "verified"
    BY <1>2, ReadSafe, JobSafe DEF SellerStep
  <1>3. CASE Environment
    <2>1. IInv'
      BY <1>3, MailOnlySafe, BuyerRestartsSafe, SellerRestartsSafe, TimeSafe DEF Environment
    <2>2. ASSUME NEW s \in Sellers, SellerRestarts(s) PROVE \A t \in Sellers : job[t] = None => job'[t] = None
      BY <2>2 DEF SellerRestarts, IInv, TypeOK
    <2>3. Lose(Buyer) \/ (\E a \in Agents : Lose(a)) \/ BuyerRestarts
            \/ (\E i \in Issues : Lapse(i)) \/ (\E k \in References : DeadlinePasses(k)) => UNCHANGED job
      BY DEF Lose, BuyerRestarts, Lapse, DeadlinePasses, sellerVars
    <2> QED BY <1>3, <2>1, <2>2, <2>3 DEF Environment
  <1>4. CASE UNCHANGED vars
    <2>1. /\ UNCHANGED <<inbox, job, grants, pc, round, issue, terms, order, locked, deal, progress>>
          /\ TypeOK' /\ Placed'
      BY <1>4 DEF vars, buyerVars, sellerVars, escrowVars, faultVars, historyVars, IInv, TypeOK,
                  Settlement!TypeOK, Placed
    <2>2. Unchanging /\ Post({}, Plain) /\ Plain.type # "DEPOSITED"
      BY <2>1, NothingPosted DEF Unchanging, escrowVars, historyVars, IInv, Plain
    <2>3. Tokens'
      BY <2>1, <2>2, UnchangingGrows, TokensKept DEF IInv
    <2> QED BY <2>1, <2>2, <2>3, CalmStep
  <1> QED BY <1>1, <1>2, <1>3, <1>4 DEF Next

LEMMA Safe == Spec => []IInv
  <1>1. Init => IInv
    BY InitSafe
  <1>2. IInv /\ [Next]_vars => IInv'
    BY StepSafe
  <1> QED BY <1>1, <1>2, PTL DEF Spec

\* Every variable of every agent keeps its type, whatever gets lost or dies.
THEOREM MarketTypeCorrect == Spec => []TypeOK
  <1>1. IInv => TypeOK
    BY DEF IInv
  <1> QED BY <1>1, Safe, PTL

\* Money is locked only for the seller an authorization was issued to, and
\* only after that seller verified it: for any number of sellers, rounds,
\* restarts and lost or reordered mentions.
THEOREM DepositsHaveConsent == Spec => []DepositBacksConsent
  <1>1. IInv => DepositBacksConsent
    BY DEF IInv, Escrows, Consented, DepositBacksConsent, DealOf
  <1> QED BY <1>1, Safe, PTL

\* No seller ever scans without a deposit of at least its price behind it.
THEOREM SellersWorkFunded == Spec => []WorkIsFunded
  <1>1. IInv => WorkIsFunded
    BY DEF IInv
  <1> QED BY <1>1, Safe, PTL

\* A paid escrow is final: no old message or new process pays it twice or opens
\* it again.
THEOREM PaymentIsFinal == Spec => PaidOnce
  <1>. DEFINE Final == \A k \in References :
                         order[k] # None /\ order[k].place = "paid" => order'[k] = order[k]
  <1>1. ASSUME IInv, [Next]_vars PROVE Final
    <2>1. CASE Deposit
      <3>1. PICK k : k = terms.reference
        OBVIOUS
      <3>2. order[k] = None
        BY <1>1, <2>1, <3>1 DEF IInv, InRound, Deposit
      <3>3. order' = [order EXCEPT ![k] = [payee |-> terms.seller, place |-> "open"]]
        BY <1>1, <2>1, <3>1, DepositTyped DEF IInv
      <3>4. order \in [References -> Settlement!OrderState]
        BY <1>1 DEF IInv, TypeOK, Settlement!TypeOK
      <3> QED BY <3>2, <3>3, <3>4
    <2>2. ASSUME NEW k \in References, Settlement!Locked(k), NEW place \in Settlement!Places,
                 order' = [order EXCEPT ![k] = [order[k] EXCEPT !.place = place]]
          PROVE  Final
      BY <1>1, <2>2, MoveTyped DEF IInv
    <2>3. CASE Pay
      <3>1. PICK k \in References : /\ Settlement!Locked(k)
                                    /\ order' = [order EXCEPT ![k] = [order[k] EXCEPT !.place = "paid"]]
        BY <1>1, <2>3, PayTyped DEF IInv
      <3>2. "paid" \in Settlement!Places
        BY DEF Settlement!Places
      <3> QED BY <2>2, <3>1, <3>2
    <2>4. CASE (\E i \in Issues : Lapse(i)) \/ (\E k \in References : DeadlinePasses(k))
      <3>1. "matured" \in Settlement!Places
        BY DEF Settlement!Places
      <3>2. \/ UNCHANGED order
            \/ \E k \in References :
                 /\ Settlement!Locked(k)
                 /\ order' = [order EXCEPT ![k] = [order[k] EXCEPT !.place = "matured"]]
        BY <1>1, <2>4, TimeTyped DEF IInv
      <3> QED BY <2>2, <3>1, <3>2
    <2>5. CASE BuyerStep /\ ~ Deposit /\ ~ Pay
      <3>1. UNCHANGED order
        BY <2>5 DEF BuyerStep, Want, CollectBid, NoSellers, Award, Grant, ReceiveTerms, Announce,
                    ReceiveReport, Discard, RoundFails, worldVars, escrowVars
      <3> QED BY <3>1
    <2>6. CASE \E s \in Sellers : SellerStep(s)
      <3>1. UNCHANGED order
        BY <2>6 DEF SellerStep, Read, ReceiveWant, ReceiveGrant, ReceiveAward, ReceiveDeposited, StartScan,
                    Deliver, Abandon, restOfJob, restOfSeller, escrowVars
      <3> QED BY <3>1
    <2>7. CASE (\E a \in Agents : Lose(a)) \/ BuyerRestarts \/ (\E s \in Sellers : SellerRestarts(s)) \/ UNCHANGED vars
      <3>1. UNCHANGED order
        BY <2>7 DEF Lose, BuyerRestarts, SellerRestarts, escrowVars, vars
      <3> QED BY <3>1
    <2> HIDE DEF Final
    <2> QED BY <1>1, <2>1, <2>3, <2>4, <2>5, <2>6, <2>7 DEF Next, Environment
  <1>2. IInv /\ [Next]_vars => [Final]_vars
    BY <1>1
  <1>3. [][Final]_vars
        <=> PaidOnce
    BY DEF PaidOnce
  <1> QED BY <1>2, <1>3, Safe, PTL DEF Spec

\* Work on a deposit begins once: when it does, no seller has begun it before,
\* neither in this life nor in an earlier one.
THEOREM DeliveryBeginsOnce == Spec => WorkBeginsOnce
  <1>. DEFINE Once == \A s \in Sellers :
                        job[s] = None /\ job'[s] # None => progress[job'[s].reference] = "verified"
  <1>1. IInv /\ [Next]_vars => [Once]_vars
    BY StepSafe
  <1> QED BY <1>1, Safe, PTL DEF Spec, WorkBeginsOnce
-----------------------------------------------------------------------------
(***************************************************************************)
(* One life of the buyer.  A new process counts its rounds from 1 again,   *)
(* and then the number of a round no longer tells two deals apart.  Until  *)
(* that happens, each seller has named one price for each round, however   *)
(* often it or the mail fails, and each round has one authorization.       *)
(***************************************************************************)
IsWant(s, r, n) == inbox[s][n].type = "WANT" /\ inbox[s][n].round = r

IsBid(s, r, p, n) ==
  /\ inbox[Buyer][n].type = "BID" /\ inbox[Buyer][n].by = s
  /\ inbox[Buyer][n].round = r /\ inbox[Buyer][n].price = p

\* Someone knows that seller s wants p for round r.
Asked(s, r, p) ==
  \/ quoted[s][r] = p \/ pending[s][r] = p
  \/ \E n \in DOMAIN inbox[Buyer] : IsBid(s, r, p, n)
  \/ round = r /\ bids[s] = p
  \/ \E i \in Issues : Granted(i, s, r) /\ deal[i].price = p

Asks == Prices \ {None}

OnePrice ==
  \A s \in Sellers, r \in Rounds : \A p, q \in Asks : Asked(s, r, p) /\ Asked(s, r, q) => p = q

\* A seller that still has to read the WANT of a round has not named a price.
WantedOnce ==
  \A s \in Sellers, r \in Rounds : \A n \in DOMAIN inbox[s] :
    IsWant(s, r, n) =>
      /\ r <= round
      /\ \A p \in Asks : ~ Asked(s, r, p)
      /\ \A j \in DOMAIN inbox[s] : IsWant(s, r, j) => n = j

NotAskedYet == \A s \in Sellers, r \in Rounds : r > round => \A p \in Asks : ~ Asked(s, r, p)

OneDealARound ==
  /\ \A i \in Issues : deal[i] # None => deal[i].round <= round /\ deal[i].price # None
  /\ \A i, j \in Issues : deal[i] # None /\ deal[j] # None /\ deal[i].round = deal[j].round => i = j

\* Terms and reports that are under way speak of the deal they name.
Honest(m) ==
  /\ m.type = "ESCROW_REQUIRED" =>
       /\ m.reference[2] = m.round
       /\ deal[m.reference[1]] # None /\ m.amount = deal[m.reference[1]].price
  /\ m.type = "DELIVERED" /\ m.report # None =>
       deal[m.report] # None /\ progress[<<m.report, m.round>>] = "reported"

HonestMail == \A n \in DOMAIN inbox[Buyer] : Honest(inbox[Buyer][n])

FairEscrows ==
  \A k \in References : order[k] # None =>
    /\ locked[k] = deal[k[1]].price
    /\ order[k].place = "paid" => progress[k] = "reported"

\* Where the buyer is with the deal of its round.
AtItsDeal ==
  /\ pc = "sleep" => \A s \in Sellers : bids[s] = None
  /\ pc \in {"collect", "grant"} => \A i \in Issues : deal[i] # None => deal[i].round # round
  /\ pc = "grant" => bids[winner] # None
  /\ pc \in {"terms", "deposit", "announce", "delivery", "release"} =>
       issue \in Issues /\ deal[issue] # None /\ deal[issue].round = round
  /\ pc \in {"deposit", "announce", "delivery", "release"} =>
       terms.reference = <<issue, round>> /\ terms.amount = deal[issue].price
  /\ pc = "release" => progress[terms.reference] = "reported"

FirstLife ==
  /\ OnePrice /\ WantedOnce /\ NotAskedYet /\ OneDealARound
  /\ HonestMail /\ FairEscrows /\ AtItsDeal

\* A mention of no account.
Hush == [type |-> "AWARD"]

\* What is known of deals and reports stays known.
Told ==
  /\ \A i \in Issues : deal[i] # None => deal'[i] = deal[i]
  /\ \A k \in References : progress[k] = "reported" => progress'[k] = "reported"

NoNewAsk == \A s \in Sellers, r \in Rounds : \A p \in Asks : Asked(s, r, p)' => Asked(s, r, p)

\* Each mention of an inbox was there before or is the new one, and none is
\* there twice.
LEMMA OldOrNew ==
  ASSUME NEW S, NEW m, Post(S, m), NEW a \in Agents
  PROVE  \E f \in [DOMAIN inbox'[a] -> Nat] :
           /\ \A i, j \in DOMAIN inbox'[a] : f[i] = f[j] => i = j
           /\ \A i \in DOMAIN inbox'[a] : \/ f[i] \in DOMAIN inbox[a] /\ inbox'[a][i] = inbox[a][f[i]]
                                          \/ a \in S /\ inbox'[a][i] = m
  BY DEF Post, Came

LEMMA AskedBefore ==
  ASSUME TypeOK, NEW S, NEW m, Post(S, m), m.type # "BID", round' = round,
         \A s \in Sellers, r \in Rounds :
           /\ quoted'[s][r] \in {quoted[s][r], None}
           /\ pending'[s][r] \in {pending[s][r], quoted[s][r], None},
         \A s \in Sellers : bids'[s] \in Asks => Asked(s, round, bids'[s]),
         \A i \in Issues : deal'[i] # None =>
           deal'[i] = deal[i] \/ Asked(deal'[i].to, deal'[i].round, deal'[i].price)
  PROVE  NoNewAsk
  <1> SUFFICES ASSUME NEW s \in Sellers, NEW r \in Rounds, NEW p \in Asks, Asked(s, r, p)'
               PROVE  Asked(s, r, p)
    BY DEF NoNewAsk
  <1>1. CASE quoted'[s][r] = p \/ pending'[s][r] = p
    <2>1. quoted[s][r] = p \/ pending[s][r] = p
      BY <1>1 DEF Asks
    <2> QED BY <2>1 DEF Asked
  <1>2. ASSUME NEW n \in DOMAIN inbox'[Buyer], IsBid(s, r, p, n)'
        PROVE  Asked(s, r, p)
    <2>1. PICK q \in DOMAIN inbox[Buyer] : inbox'[Buyer][n] = inbox[Buyer][q]
      BY <1>2, Names, OldOrNew DEF IsBid
    <2>2. IsBid(s, r, p, q)
      BY <1>2, <2>1 DEF IsBid
    <2> QED BY <2>2 DEF Asked
  <1>3. CASE round' = r /\ bids'[s] = p
    BY <1>3
  <1>4. ASSUME NEW i \in Issues, Granted(i, s, r)', deal'[i].price = p
        PROVE  Asked(s, r, p)
    <2>1. deal'[i] # None /\ deal'[i].to = s /\ deal'[i].round = r
      BY <1>4 DEF Granted
    <2>2. CASE deal'[i] = deal[i]
      BY <1>4, <2>1, <2>2 DEF Asked, Granted
    <2>3. CASE Asked(deal'[i].to, deal'[i].round, deal'[i].price)
      BY <1>4, <2>1, <2>3
    <2> QED BY <2>1, <2>2, <2>3
  <1> QED BY <1>1, <1>2, <1>3, <1>4 DEF Asked

\* A WANT that is around after a step was there before, if the step posts none.
LEMMA WantKept ==
  ASSUME WantedOnce, round' = round, NEW S, NEW m, Post(S, m), m.type # "WANT",
         NEW s \in Sellers, NEW r \in Rounds, \A p \in Asks : Asked(s, r, p)' => Asked(s, r, p),
         NEW n \in DOMAIN inbox'[s], IsWant(s, r, n)'
  PROVE  /\ r <= round'
         /\ \A p \in Asks : ~ Asked(s, r, p)'
         /\ \A j \in DOMAIN inbox'[s] : IsWant(s, r, j)' => n = j
  <1>1. s \in Agents
    BY Names
  <1>2. PICK f \in [DOMAIN inbox'[s] -> Nat] :
          /\ \A i, j \in DOMAIN inbox'[s] : f[i] = f[j] => i = j
          /\ \A i \in DOMAIN inbox'[s] : \/ f[i] \in DOMAIN inbox[s] /\ inbox'[s][i] = inbox[s][f[i]]
                                         \/ s \in S /\ inbox'[s][i] = m
    BY <1>1, OldOrNew
  <1>3. \A j \in DOMAIN inbox'[s] : IsWant(s, r, j)' => f[j] \in DOMAIN inbox[s] /\ IsWant(s, r, f[j])
    BY <1>2 DEF IsWant
  <1>4. f[n] \in DOMAIN inbox[s] /\ IsWant(s, r, f[n])
    BY <1>3
  <1>5. r <= round /\ \A p \in Asks : ~ Asked(s, r, p)
    BY <1>4 DEF WantedOnce
  <1>6. \A j \in DOMAIN inbox'[s] : IsWant(s, r, j)' => f[n] = f[j]
    BY <1>3, <1>4 DEF WantedOnce
  <1>7. \A j \in DOMAIN inbox'[s] : IsWant(s, r, j)' => n = j
    BY <1>2, <1>6
  <1> QED BY <1>5, <1>7

LEMMA PricesKept ==
  ASSUME TypeOK, OnePrice, WantedOnce, NotAskedYet, NoNewAsk, round' = round,
         NEW S, NEW m, Post(S, m), m.type # "WANT"
  PROVE  OnePrice' /\ WantedOnce' /\ NotAskedYet'
  <1>1. OnePrice'
    BY DEF OnePrice, NoNewAsk
  <1>2. NotAskedYet'
    BY DEF NotAskedYet, NoNewAsk
  <1>3. WantedOnce'
    <2> SUFFICES ASSUME NEW s \in Sellers, NEW r \in Rounds, NEW n \in DOMAIN inbox'[s], IsWant(s, r, n)'
                 PROVE  /\ r <= round'
                        /\ \A p \in Asks : ~ Asked(s, r, p)'
                        /\ \A j \in DOMAIN inbox'[s] : IsWant(s, r, j)' => n = j
      BY DEF WantedOnce
    <2> QED BY WantKept DEF NoNewAsk
  <1> QED BY <1>1, <1>2, <1>3

LEMMA HonestGrows ==
  ASSUME Told, NEW x \in Messages, Honest(x)
  PROVE  Honest(x)'
  <1>1. x.type = "ESCROW_REQUIRED" => x.reference[1] \in Issues
    BY MessageFacts, Names DEF TermsMessage
  <1>2. x.type = "DELIVERED" /\ x.report # None => x.report \in Issues /\ <<x.report, x.round>> \in References
    BY MessageFacts, Names
  <1> QED BY <1>1, <1>2 DEF Told, Honest

LEMMA HonestKept ==
  ASSUME TypeOK, HonestMail, Told, NEW S, NEW m, Post(S, m), Buyer \in S => Honest(m)'
  PROVE  HonestMail'
  <1> SUFFICES ASSUME NEW n \in DOMAIN inbox'[Buyer]
               PROVE  Honest(inbox[Buyer][n])'
    BY DEF HonestMail
  <1>1. \/ \E p \in DOMAIN inbox[Buyer] : inbox'[Buyer][n] = inbox[Buyer][p]
        \/ Buyer \in S /\ inbox'[Buyer][n] = m
    BY Names, OldOrNew
  <1>2. ASSUME NEW p \in DOMAIN inbox[Buyer], inbox'[Buyer][n] = inbox[Buyer][p]
        PROVE  Honest(inbox[Buyer][n])'
    <2>1. PICK x \in Messages : x = inbox[Buyer][p] /\ Honest(x)
      BY Names, OldMail DEF HonestMail
    <2>2. Honest(x)'
      BY <2>1, HonestGrows
    <2> QED BY <1>2, <2>1, <2>2 DEF Honest
  <1>3. CASE Buyer \in S /\ inbox'[Buyer][n] = m
    BY <1>3 DEF Honest
  <1> QED BY <1>1, <1>2, <1>3

LEMMA FairEscrowsKept ==
  ASSUME IInv, FairEscrows, Told,
         \A k \in References : order'[k] # None =>
           /\ order[k] # None /\ locked'[k] = locked[k]
           /\ order'[k].place = "paid" => order[k].place = "paid" \/ progress'[k] = "reported"
  PROVE  FairEscrows'
  <1> SUFFICES ASSUME NEW k \in References, order'[k] # None
               PROVE  /\ locked'[k] = deal'[k[1]].price
                      /\ order'[k].place = "paid" => progress'[k] = "reported"
    BY DEF FairEscrows
  <1>1. k[1] \in Issues /\ deal[k[1]] # None
    BY Names DEF IInv, Escrows, Consented
  <1> QED BY <1>1 DEF FairEscrows, Told

LEMMA StillAtItsDeal ==
  ASSUME IInv, AtItsDeal, Told, UNCHANGED <<deal, pc, round, bids, winner, issue, terms>>
  PROVE  AtItsDeal'
  <1>1. pc = "release" => terms.reference \in References
    BY Names DEF IInv, Placed, TermsMessage
  <1> QED BY <1>1 DEF AtItsDeal, Told

\* A step that posts neither WANT nor BID, and names no new price.
LEMMA LifeStep ==
  ASSUME IInv, FirstLife, NEW S, NEW m, Post(S, m), m.type \notin {"WANT", "BID"},
         Buyer \in S => Honest(m)', Told, round' = round, NoNewAsk,
         OneDealARound', FairEscrows', AtItsDeal'
  PROVE  FirstLife'
  <1>1. OnePrice' /\ WantedOnce' /\ NotAskedYet'
    BY PricesKept DEF IInv, FirstLife
  <1>2. HonestMail'
    BY HonestKept DEF IInv, FirstLife
  <1> QED BY <1>1, <1>2 DEF FirstLife

\* Such a step that leaves deals and escrows alone as well.
LEMMA CalmLife ==
  ASSUME IInv, FirstLife, NEW S, NEW m, Post(S, m), m.type \notin {"WANT", "BID"},
         Buyer \in S => Honest(m)', UNCHANGED <<deal, order, locked, round>>,
         \A k \in References : progress[k] = "reported" => progress'[k] = "reported",
         \A s \in Sellers, r \in Rounds :
           /\ quoted'[s][r] \in {quoted[s][r], None}
           /\ pending'[s][r] \in {pending[s][r], quoted[s][r], None},
         \/ UNCHANGED <<pc, bids, winner, issue, terms>>
         \/ AtItsDeal' /\ \A s \in Sellers : bids'[s] \in Asks => Asked(s, round, bids'[s])
  PROVE  FirstLife'
  <1>1. Told
    BY DEF Told
  <1>2. \A s \in Sellers : bids'[s] \in Asks => Asked(s, round, bids'[s])
    BY DEF Asked
  <1>3. NoNewAsk
    BY <1>2, AskedBefore DEF IInv
  <1>4. OneDealARound'
    BY DEF FirstLife, OneDealARound
  <1>5. FairEscrows'
    <2>1. \A k \in References : order'[k] # None =>
            /\ order[k] # None /\ locked'[k] = locked[k]
            /\ order'[k].place = "paid" => order[k].place = "paid" \/ progress'[k] = "reported"
      OBVIOUS
    <2> QED BY <1>1, <2>1, FairEscrowsKept DEF FirstLife
  <1>6. AtItsDeal'
    BY <1>1, StillAtItsDeal DEF FirstLife
  <1> QED BY <1>1, <1>3, <1>4, <1>5, <1>6, LifeStep

\* The same for a step of the buyer, or of the world, by which no seller changes.
LEMMA SellersCalm ==
  ASSUME UNCHANGED sellerVars
  PROVE  \A s \in Sellers, r \in Rounds :
           /\ quoted'[s][r] \in {quoted[s][r], None}
           /\ pending'[s][r] \in {pending[s][r], quoted[s][r], None}
  BY DEF sellerVars

LEMMA OutOfScope ==
  ASSUME EndRound
  PROVE  AtItsDeal' /\ (\A s \in Sellers : bids'[s] \notin Asks) /\ round' = round
  BY DEF EndRound, AtItsDeal, Empty, Asks
-----------------------------------------------------------------------------
(***************************************************************************)
(* The steps of the market in the buyer's first life.                      *)
(***************************************************************************)
LEMMA WantLife ==
  ASSUME IInv, FirstLife, Want
  PROVE  FirstLife'
  <1>1. /\ Post(Sellers, [type |-> "WANT", round |-> round'])
        /\ pc = "sleep" /\ pc' = "collect" /\ round' = round + 1
        /\ UNCHANGED <<bids, quoted, pending, deal, order, locked, progress>>
    BY WantTyped DEF IInv, Want, sellerVars, worldVars, escrowVars, historyVars
  <1>2. round \in Nat
    BY MarketAssumption DEF MarketAssumption, IInv, TypeOK
  <1>3. PICK w : w = [type |-> "WANT", round |-> round']
    OBVIOUS
  <1>4. Post(Sellers, w) /\ w.type = "WANT" /\ w.round = round + 1
    BY <1>1, <1>3
  <1>5. NoNewAsk
    <2> SUFFICES ASSUME NEW s \in Sellers, NEW r \in Rounds, NEW p \in Asks, Asked(s, r, p)'
                 PROVE  Asked(s, r, p)
      BY DEF NoNewAsk
    <2>1. ASSUME NEW n \in DOMAIN inbox'[Buyer], IsBid(s, r, p, n)'
          PROVE  Asked(s, r, p)
      <3>1. PICK q \in DOMAIN inbox[Buyer] : inbox'[Buyer][n] = inbox[Buyer][q]
        BY <1>4, Names, OldOrNew
      <3>2. IsBid(s, r, p, q)
        BY <2>1, <3>1 DEF IsBid
      <3> QED BY <3>2 DEF Asked
    <2>2. bids'[s] # p
      BY <1>1 DEF FirstLife, AtItsDeal, Asks
    <2>3. ASSUME NEW i \in Issues, Granted(i, s, r)', deal'[i].price = p
          PROVE  Asked(s, r, p)
      BY <1>1, <2>3 DEF Asked, Granted
    <2> QED BY <1>1, <2>1, <2>2, <2>3 DEF Asked
  <1>6. OnePrice'
    BY <1>5 DEF FirstLife, OnePrice, NoNewAsk
  <1>7. NotAskedYet'
    <2>1. \A r \in Rounds : r > round' => r > round
      BY <1>1, <1>2 DEF Rounds
    <2> QED BY <1>5, <2>1 DEF FirstLife, NotAskedYet, NoNewAsk
  <1>8. WantedOnce'
    <2> SUFFICES ASSUME NEW s \in Sellers, NEW r \in Rounds, NEW n \in DOMAIN inbox'[s], IsWant(s, r, n)'
                 PROVE  /\ r <= round'
                        /\ \A p \in Asks : ~ Asked(s, r, p)'
                        /\ \A j \in DOMAIN inbox'[s] : IsWant(s, r, j)' => n = j
      BY DEF WantedOnce
    <2>1. inbox'[s] = Append(inbox[s], w) /\ inbox[s] \in Seq(Messages)
      BY <1>3, Names DEF Want, Send, IInv, TypeOK
    <2>2. w \in Messages
      <3>1. round' \in Rounds
        BY <1>1, <1>2, MarketAssumption DEF MarketAssumption, Want, Rounds, IInv, TypeOK
      <3> QED BY <1>3, <3>1, MessagesMade
    <2>3. PICK l \in Nat : /\ DOMAIN inbox[s] = 1 .. l /\ DOMAIN inbox'[s] = 1 .. l + 1
                           /\ inbox'[s][l + 1] = w
                           /\ \A j \in 1 .. l : inbox'[s][j] = inbox[s][j]
      <3>1. Len(inbox[s]) \in Nat /\ DOMAIN inbox[s] = 1 .. Len(inbox[s])
        BY <2>1, LenProperties
      <3>2. /\ inbox'[s] \in Seq(Messages) /\ Len(inbox'[s]) = Len(inbox[s]) + 1
            /\ inbox'[s][Len(inbox[s]) + 1] = w
            /\ \A j \in 1 .. Len(inbox[s]) : inbox'[s][j] = inbox[s][j]
        BY <2>1, <2>2, AppendProperties
      <3>3. DOMAIN inbox'[s] = 1 .. Len(inbox[s]) + 1
        BY <3>2, LenProperties
      <3> QED BY <3>1, <3>2, <3>3
    <2>4. CASE r = round + 1
      <3>1. \A j \in DOMAIN inbox[s] : ~ IsWant(s, r, j)
        BY <1>2, <2>4 DEF FirstLife, WantedOnce
      <3>2. \A j \in DOMAIN inbox'[s] : IsWant(s, r, j)' => j = l + 1
        BY <2>3, <3>1 DEF IsWant
      <3>3. \A p \in Asks : ~ Asked(s, r, p)
        BY <1>2, <2>4 DEF FirstLife, NotAskedYet
      <3> QED BY <1>1, <1>2, <1>5, <2>4, <3>2, <3>3 DEF NoNewAsk
    <2>5. CASE r # round + 1
      <3>1. \A j \in DOMAIN inbox'[s] : IsWant(s, r, j)' => j \in DOMAIN inbox[s] /\ IsWant(s, r, j)
        BY <1>4, <2>3, <2>5 DEF IsWant
      <3>2. r <= round /\ \A p \in Asks : ~ Asked(s, r, p)
        BY <3>1 DEF FirstLife, WantedOnce
      <3>3. \A j \in DOMAIN inbox'[s] : IsWant(s, r, j)' => n = j
        BY <3>1 DEF FirstLife, WantedOnce
      <3>4. r <= round'
        BY <1>1, <1>2, <3>2 DEF Rounds
      <3> QED BY <1>5, <3>2, <3>3, <3>4 DEF NoNewAsk
    <2> QED BY <2>4, <2>5
  <1>9. OneDealARound'
    <2>1. \A i \in Issues : deal[i] # None => deal[i].round \in Nat
      BY DEF IInv, TypeOK, Deals, Rounds
    <2> QED BY <1>1, <1>2, <2>1 DEF FirstLife, OneDealARound
  <1>10. AtItsDeal'
    <2>1. \A i \in Issues : deal[i] # None => deal[i].round \in Nat /\ deal[i].round <= round
      BY DEF IInv, TypeOK, Deals, Rounds, FirstLife, OneDealARound
    <2>2. \A i \in Issues : deal'[i] # None => deal'[i].round # round'
      BY <1>1, <1>2, <2>1
    <2> QED BY <1>1, <2>2 DEF AtItsDeal
  <1>11. Told
    BY <1>1 DEF Told
  <1>12. FairEscrows'
    BY <1>1 DEF FirstLife, FairEscrows
  <1>13. HonestMail'
    BY <1>4, <1>11, Names, HonestKept DEF IInv, FirstLife
  <1> QED BY <1>6, <1>7, <1>8, <1>9, <1>10, <1>12, <1>13 DEF FirstLife

LEMMA CollectBidLife ==
  ASSUME IInv, FirstLife, CollectBid
  PROVE  FirstLife'
  <1>1. /\ Post({}, Hush) /\ pc' = pc /\ pc = "collect"
        /\ UNCHANGED <<pc, round, winner, issue, terms, sellerVars, deal, order, locked, progress>>
    BY CollectBidTyped DEF IInv, CollectBid, worldVars, escrowVars, historyVars
  <1>2. PICK n \in DOMAIN inbox[Buyer] :
          /\ inbox[Buyer][n] \in Messages /\ Matches(inbox[Buyer][n])
          /\ bids' = [bids EXCEPT ![inbox[Buyer][n].by] = inbox[Buyer][n].price]
    BY Names, ReadableFacts DEF CollectBid, IInv
  <1>3. PICK b, p : b = inbox[Buyer][n].by /\ p = inbox[Buyer][n].price
    OBVIOUS
  <1>4. IsBid(b, round, p, n) /\ b \in Sellers
    BY <1>1, <1>2, <1>3, MessageFacts DEF Matches, Awaited, IsBid
  <1>5. Asked(b, round, p)
    BY <1>4 DEF Asked
  <1>6. \A s \in Sellers : bids'[s] \in Asks => Asked(s, round, bids'[s])
    <2>1. \A s \in Sellers : (bids'[s] = bids[s]) \/ (s = b /\ bids'[s] = p)
      BY <1>2, <1>3, <1>4 DEF IInv, TypeOK
    <2> QED BY <1>5, <2>1 DEF Asked
  <1>7. AtItsDeal'
    BY <1>1 DEF FirstLife, AtItsDeal
  <1>8. Hush.type = "AWARD"
    BY DEF Hush
  <1> QED BY <1>1, <1>6, <1>7, <1>8, SellersCalm, CalmLife

LEMMA RoundFailsLife ==
  ASSUME IInv, FirstLife, NoSellers \/ RoundFails
  PROVE  FirstLife'
  <1>1. Post({}, Hush) /\ EndRound /\ UNCHANGED <<sellerVars, deal, order, locked, progress>>
    BY RoundFailsTyped DEF IInv, NoSellers, RoundFails, worldVars, escrowVars, historyVars
  <1>2. Hush.type = "AWARD"
    BY DEF Hush
  <1> QED BY <1>1, <1>2, OutOfScope, SellersCalm, CalmLife

LEMMA AwardLife ==
  ASSUME IInv, FirstLife, Award
  PROVE  FirstLife'
  <1>1. PICK S, m : Post(S, m) /\ m = [type |-> "AWARD", round |-> round]
    BY AwardTyped DEF IInv
  <1>2. m.type = "AWARD"
    BY <1>1
  <1>3. /\ UNCHANGED <<round, bids, issue, terms, sellerVars, deal, order, locked, progress>>
        /\ pc = "collect" /\ pc' = "grant" /\ winner' \in Pool
    BY DEF Award, worldVars, escrowVars, historyVars
  <1>4. AtItsDeal'
    BY <1>3 DEF FirstLife, AtItsDeal, Pool
  <1>5. \A s \in Sellers : bids'[s] \in Asks => Asked(s, round, bids'[s])
    BY <1>3 DEF Asked
  <1>6. Honest(m)'
    BY <1>2 DEF Honest
  <1> QED BY <1>1, <1>2, <1>3, <1>4, <1>5, <1>6, SellersCalm, CalmLife

\* The price of the authorization is the bid of the winner.
LEMMA GrantLife ==
  ASSUME IInv, FirstLife, Grant
  PROVE  FirstLife'
  <1>1. PICK w, p : w = winner /\ p = bids[winner]
    OBVIOUS
  <1>2. PICK i \in Issues :
          /\ i = issue' /\ Fresh(i)
          /\ deal' = [deal EXCEPT ![i] = [round |-> round, to |-> w, price |-> p]]
          /\ [round |-> round, to |-> w, price |-> p] \in Deals
          /\ Post({w}, [type |-> "GRANT", round |-> round, issue |-> i])
    BY <1>1, GrantTyped DEF IInv
  <1>3. /\ pc = "grant" /\ pc' = "terms" /\ w \in Sellers
        /\ UNCHANGED <<round, bids, winner, terms, sellerVars, order, locked, progress>>
    BY <1>1, <1>2 DEF Grant, escrowVars, IInv, Placed
  <1>4. PICK d : d = [round |-> round, to |-> w, price |-> p]
    OBVIOUS
  <1>5. d.round = round /\ d.to = w /\ d.price = p /\ d # None
    BY <1>2, <1>4, NoneAssumption DEF NoneAssumption
  <1>6. deal[i] = None /\ deal'[i] = d /\ \A j \in Issues \ {i} : deal'[j] = deal[j]
    <2>1. deal \in [Issues -> Deals \cup {None}]
      BY DEF IInv, TypeOK
    <2> QED BY <1>2, <1>4, <2>1 DEF Fresh
  <1>7. Told
    BY <1>3, <1>6 DEF Told
  <1>8. p # None /\ \A j \in Issues : deal[j] # None => deal[j].round # round
    BY <1>1, <1>3 DEF FirstLife, AtItsDeal
  <1>9. NoNewAsk
    <2>1. Asked(w, round, p)
      BY <1>1 DEF Asked
    <2>2. \A j \in Issues : deal'[j] # None =>
            deal'[j] = deal[j] \/ Asked(deal'[j].to, deal'[j].round, deal'[j].price)
      BY <1>5, <1>6, <2>1
    <2>3. \A s \in Sellers : bids'[s] \in Asks => Asked(s, round, bids'[s])
      BY <1>3 DEF Asked
    <2>4. PICK m : m = [type |-> "GRANT", round |-> round, issue |-> i]
      OBVIOUS
    <2>5. Post({w}, m) /\ m.type # "BID"
      BY <1>2, <2>4
    <2> QED BY <1>3, <2>2, <2>3, <2>5, SellersCalm, AskedBefore DEF IInv
  <1>10. OneDealARound'
    <2>1. round \in Nat
      BY MarketAssumption DEF MarketAssumption, IInv, TypeOK
    <2>2. \A j \in Issues : deal'[j] # None => deal'[j].round <= round' /\ deal'[j].price # None
      BY <1>3, <1>5, <1>6, <1>8, <2>1 DEF FirstLife, OneDealARound
    <2>3. \A j, l \in Issues : deal'[j] # None /\ deal'[l] # None /\ deal'[j].round = deal'[l].round => j = l
      BY <1>5, <1>6, <1>8 DEF FirstLife, OneDealARound
    <2> QED BY <2>2, <2>3 DEF OneDealARound
  <1>11. FairEscrows'
    BY <1>3, <1>7, FairEscrowsKept DEF FirstLife, FairEscrows
  <1>12. AtItsDeal'
    BY <1>2, <1>3, <1>5, <1>6 DEF AtItsDeal
  <1>13. PICK m : m = [type |-> "GRANT", round |-> round, issue |-> i]
    OBVIOUS
  <1>14. Post({w}, m) /\ m.type = "GRANT" /\ Honest(m)'
    BY <1>2, <1>13 DEF Honest
  <1> QED BY <1>3, <1>7, <1>9, <1>10, <1>11, <1>12, <1>14, LifeStep

\* The terms the buyer accepts name the price of its own authorization.
LEMMA ReceiveTermsLife ==
  ASSUME IInv, FirstLife, ReceiveTerms
  PROVE  FirstLife'
  <1>1. /\ Post({}, Hush) /\ Hush.type = "AWARD" /\ pc = "terms"
        /\ UNCHANGED <<sellerVars, deal, order, locked, progress>>
    BY ReceiveTermsTyped DEF IInv, ReceiveTerms, worldVars, escrowVars, historyVars, Hush
  <1>2. PICK n \in DOMAIN inbox[Buyer] :
          /\ inbox[Buyer][n] \in Messages /\ Matches(inbox[Buyer][n])
          /\ \/ /\ Acceptable(inbox[Buyer][n]) /\ terms' = inbox[Buyer][n]
                /\ pc' = "deposit" /\ UNCHANGED <<round, bids, winner, issue>>
             \/ EndRound
    BY Names, ReadableFacts DEF ReceiveTerms, IInv
  <1>3. CASE EndRound
    BY <1>1, <1>3, OutOfScope, SellersCalm, CalmLife
  <1>4. CASE /\ Acceptable(inbox[Buyer][n]) /\ terms' = inbox[Buyer][n]
             /\ pc' = "deposit" /\ UNCHANGED <<round, bids, winner, issue>>
    <2>1. PICK m : m = inbox[Buyer][n]
      OBVIOUS
    <2>2. m.type = "ESCROW_REQUIRED" /\ m.reference = <<issue, round>> /\ Honest(m)
      BY <1>1, <1>2, <1>4, <2>1 DEF Matches, Awaited, Acceptable, FirstLife, HonestMail
    <2>3. m.amount = deal[issue].price
      BY <2>2 DEF Honest
    <2>4. AtItsDeal'
      BY <1>1, <1>4, <2>1, <2>2, <2>3 DEF FirstLife, AtItsDeal
    <2>5. \A s \in Sellers : bids'[s] \in Asks => Asked(s, round, bids'[s])
      BY <1>4 DEF Asked
    <2> QED BY <1>1, <1>4, <2>4, <2>5, SellersCalm, CalmLife
  <1> QED BY <1>2, <1>3, <1>4

LEMMA DepositLife ==
  ASSUME IInv, FirstLife, Deposit
  PROVE  FirstLife'
  <1>1. PICK k, o : k = terms.reference /\ o = [payee |-> terms.seller, place |-> "open"]
    OBVIOUS
  <1>2. /\ Post({}, Hush) /\ Hush.type = "AWARD" /\ k \in References
        /\ order' = [order EXCEPT ![k] = o] /\ locked' = [locked EXCEPT ![k] = terms.amount]
    BY <1>1, DepositTyped DEF IInv, Hush
  <1>3. /\ pc = "deposit" /\ pc' = "announce"
        /\ UNCHANGED <<round, bids, winner, issue, terms, sellerVars, deal, progress>>
    BY DEF Deposit, historyVars
  <1>4. o.place = "open"
    BY <1>1
  <1>5. k[1] = issue /\ terms.amount = deal[issue].price
    BY <1>1, <1>3 DEF FirstLife, AtItsDeal
  <1>6. /\ order'[k] = o /\ locked'[k] = terms.amount
        /\ \A j \in References \ {k} : order'[j] = order[j] /\ locked'[j] = locked[j]
    <2>1. order \in [References -> Settlement!OrderState] /\ locked \in [References -> Prices \cup {None}]
      BY DEF IInv, TypeOK, Settlement!TypeOK
    <2> QED BY <1>2, <2>1
  <1>7. FairEscrows'
    <2> SUFFICES ASSUME NEW j \in References, order'[j] # None
                 PROVE  /\ locked'[j] = deal'[j[1]].price
                        /\ order'[j].place = "paid" => progress'[j] = "reported"
      BY DEF FairEscrows
    <2>1. CASE j = k
      BY <1>3, <1>4, <1>5, <1>6, <2>1
    <2>2. CASE j # k
      BY <1>3, <1>6, <2>2 DEF FirstLife, FairEscrows
    <2> QED BY <2>1, <2>2
  <1>8. Told
    BY <1>3 DEF Told
  <1>9. AtItsDeal' /\ OneDealARound'
    BY <1>3 DEF FirstLife, AtItsDeal, OneDealARound
  <1>10. NoNewAsk
    <2>1. /\ \A s \in Sellers : bids'[s] \in Asks => Asked(s, round, bids'[s])
          /\ \A j \in Issues : deal'[j] # None => deal'[j] = deal[j]
      BY <1>3 DEF Asked
    <2> QED BY <1>2, <1>3, <2>1, SellersCalm, AskedBefore DEF IInv
  <1> QED BY <1>2, <1>3, <1>7, <1>8, <1>9, <1>10, LifeStep

LEMMA AnnounceLife ==
  ASSUME IInv, FirstLife, Announce
  PROVE  FirstLife'
  <1>1. PICK w, m : w = winner /\ m = [type |-> "DEPOSITED", round |-> round, reference |-> terms.reference]
    OBVIOUS
  <1>2. /\ Post({w}, m) /\ pc = "announce" /\ pc' = "delivery"
        /\ UNCHANGED <<round, bids, winner, issue, terms, sellerVars, deal, order, locked, progress>>
    BY <1>1, AnnounceTyped DEF IInv, Announce, worldVars, escrowVars, historyVars
  <1>3. m.type = "DEPOSITED" /\ Honest(m)'
    BY <1>1 DEF Honest
  <1>4. AtItsDeal' /\ \A s \in Sellers : bids'[s] \in Asks => Asked(s, round, bids'[s])
    BY <1>2 DEF FirstLife, AtItsDeal, Asked
  <1> QED BY <1>2, <1>3, <1>4, SellersCalm, CalmLife

\* A report of this round is the report of this deal: no other has its number.
LEMMA ReceiveReportLife ==
  ASSUME IInv, FirstLife, ReceiveReport
  PROVE  FirstLife'
  <1>1. /\ Post({}, Hush) /\ Hush.type = "AWARD" /\ pc = "delivery"
        /\ UNCHANGED <<sellerVars, deal, order, locked, progress>>
    BY ReceiveReportTyped DEF IInv, ReceiveReport, worldVars, escrowVars, historyVars, Hush
  <1>2. PICK n \in DOMAIN inbox[Buyer] :
          /\ inbox[Buyer][n] \in Messages /\ Matches(inbox[Buyer][n])
          /\ \/ /\ Payable(inbox[Buyer][n].report)
                /\ pc' = "release" /\ UNCHANGED <<round, bids, winner, issue, terms>>
             \/ EndRound
    BY Names, ReadableFacts DEF ReceiveReport, IInv
  <1>3. CASE EndRound
    BY <1>1, <1>3, OutOfScope, SellersCalm, CalmLife
  <1>4. CASE /\ Payable(inbox[Buyer][n].report)
             /\ pc' = "release" /\ UNCHANGED <<round, bids, winner, issue, terms>>
    <2>1. PICK m \in Messages : m = inbox[Buyer][n]
      BY <1>2
    <2>2. m.type = "DELIVERED" /\ m.round = round /\ Honest(m)
      BY <1>1, <1>2, <2>1 DEF Matches, Awaited, FirstLife, HonestMail
    <2>3. m.report \in Issues /\ deal[m.report].round = round
      BY <1>4, <2>1, <2>2, MessageFacts DEF Payable
    <2>4. deal[m.report] # None /\ progress[<<m.report, round>>] = "reported"
      BY <1>4, <2>1, <2>2 DEF Honest, Payable
    <2>5. m.report = issue
      BY <1>1, <2>3, <2>4 DEF FirstLife, AtItsDeal, OneDealARound
    <2>6. AtItsDeal'
      BY <1>1, <1>4, <2>4, <2>5 DEF FirstLife, AtItsDeal
    <2>7. \A s \in Sellers : bids'[s] \in Asks => Asked(s, round, bids'[s])
      BY <1>4 DEF Asked
    <2> QED BY <1>1, <1>4, <2>6, <2>7, SellersCalm, CalmLife
  <1> QED BY <1>2, <1>3, <1>4

LEMMA PayLife ==
  ASSUME IInv, FirstLife, Pay
  PROVE  FirstLife'
  <1>1. PICK k \in References :
          /\ k = terms.reference /\ Settlement!Locked(k)
          /\ order' = [order EXCEPT ![k] = [order[k] EXCEPT !.place = "paid"]]
    BY PayTyped DEF IInv
  <1>2. /\ Post({}, Hush) /\ Hush.type = "AWARD" /\ pc = "release" /\ EndRound
        /\ UNCHANGED <<sellerVars, locked, deal, progress>>
    BY PayTyped DEF IInv, Pay, PayOut, historyVars, Hush
  <1>3. Told
    BY <1>2 DEF Told
  <1>4. \A j \in References : order'[j] # None =>
          /\ order[j] # None /\ locked'[j] = locked[j]
          /\ order'[j].place = "paid" => order[j].place = "paid" \/ progress'[j] = "reported"
    <2>1. "paid" \in Settlement!Places
      BY DEF Settlement!Places
    <2>2. order[k] # None /\ \A j \in References \ {k} : order'[j] = order[j]
      BY <1>1, <2>1, MoveTyped DEF IInv
    <2>3. progress[k] = "reported"
      BY <1>1, <1>2 DEF FirstLife, AtItsDeal
    <2> QED BY <1>2, <2>2, <2>3
  <1>5. FairEscrows'
    BY <1>3, <1>4, FairEscrowsKept DEF FirstLife
  <1>6. OneDealARound'
    BY <1>2, OutOfScope DEF FirstLife, OneDealARound
  <1>7. NoNewAsk
    BY <1>2, OutOfScope, SellersCalm, AskedBefore DEF IInv
  <1> QED BY <1>2, <1>3, <1>5, <1>6, <1>7, OutOfScope, LifeStep

LEMMA MailOnlyLife ==
  ASSUME IInv, FirstLife, Discard \/ (\E a \in Agents : Lose(a))
  PROVE  FirstLife'
  <1>1. Post({}, Hush) /\ UNCHANGED <<buyerVars, sellerVars, escrowVars, historyVars>>
    BY MailOnlyTyped DEF IInv
  <1>2. Hush.type = "AWARD" /\ UNCHANGED <<pc, round, bids, winner, issue, terms, order, locked, deal, progress>>
    BY <1>1 DEF Hush, buyerVars, escrowVars, historyVars
  <1> QED BY <1>1, <1>2, SellersCalm, CalmLife

\* A seller that dies forgets its prices; none is named that was not before.
LEMMA SellerRestartsLife ==
  ASSUME IInv, FirstLife, NEW s \in Sellers, SellerRestarts(s)
  PROVE  FirstLife'
  <1>1. /\ Post({}, Hush) /\ Hush.type = "AWARD"
        /\ UNCHANGED <<pc, round, bids, winner, issue, terms, order, locked, deal, progress>>
    BY SellerRestartsTyped DEF IInv, Hush, buyerVars, escrowVars, historyVars
  <1>2. /\ quoted' = [quoted EXCEPT ![s] = Empty(Rounds)]
        /\ pending' = [pending EXCEPT ![s] = Empty(Rounds)]
    BY DEF SellerRestarts
  <1>3. \A t \in Sellers, r \in Rounds :
          /\ quoted'[t][r] \in {quoted[t][r], None}
          /\ pending'[t][r] \in {pending[t][r], quoted[t][r], None}
    BY <1>2 DEF IInv, TypeOK, Empty
  <1> QED BY <1>1, <1>3, CalmLife

LEMMA ReplyTakes ==
  ASSUME TypeOK, NEW a \in Agents, NEW n \in DOMAIN inbox[a], NEW b \in Agents, a # b,
         NEW m \in Messages, TakeAndReply(a, n, b, m)
  PROVE  Came(inbox'[a], inbox[a], {}, {n})
  <1>1. CASE Take(a, n)
    BY <1>1, TakenAway
  <1>2. CASE inbox' = [inbox EXCEPT ![a] = RemoveAt(@, n), ![b] = Append(@, m)]
    <2>1. inbox \in [Agents -> Seq(Messages)]
      BY DEF TypeOK
    <2>2. inbox'[a] = RemoveAt(inbox[a], n)
      BY <1>2, <2>1
    <2> QED BY <2>1, <2>2, Taken
  <1> QED BY <1>1, <1>2 DEF TakeAndReply

\* A seller names its price for a round when it reads the only WANT of it.
LEMMA ReceiveWantLife ==
  ASSUME IInv, FirstLife, NEW s \in Sellers, NEW n \in Readable(s), ReceiveWant(s, n)
  PROVE  FirstLife'
  <1>1. PICK r \in Rounds : r = inbox[s][n].round /\ n \in DOMAIN inbox[s] /\ IsWant(s, r, n)
    BY Names, ReadableFacts, MessageFacts DEF ReceiveWant, IsWant, IInv
  <1>2. UNCHANGED <<pc, round, bids, winner, issue, terms, pending, order, locked, deal, progress>>
    BY DEF ReceiveWant, restOfSeller, buyerVars, escrowVars
  <1>3. /\ r <= round /\ \A p \in Asks : ~ Asked(s, r, p)
        /\ \A j \in DOMAIN inbox[s] : IsWant(s, r, j) => j = n
    BY <1>1 DEF FirstLife, WantedOnce
  <1>4. CASE Take(s, n) /\ UNCHANGED quoted
    <2>1. Post({}, Hush) /\ Hush.type = "AWARD"
      BY <1>1, <1>4, Names, TakePosts DEF IInv, Hush
    <2>2. \A t \in Sellers, q \in Rounds :
            /\ quoted'[t][q] \in {quoted[t][q], None}
            /\ pending'[t][q] \in {pending[t][q], quoted[t][q], None}
      BY <1>2, <1>4
    <2> QED BY <1>2, <2>1, <2>2, CalmLife
  <1>5. ASSUME NEW price \in Quotes[s], quoted' = [quoted EXCEPT ![s][r] = price],
               TakeAndReply(s, n, Buyer, [type |-> "BID", round |-> r, by |-> s, price |-> price])
        PROVE  FirstLife'
    <2>1. PICK m : m = [type |-> "BID", round |-> r, by |-> s, price |-> price]
      OBVIOUS
    <2>2. m \in Messages /\ m.type = "BID" /\ m.round = r /\ m.by = s /\ m.price = price
      BY <2>1, Names, MessagesMade
    <2>3. Post({Buyer}, m) /\ Came(inbox'[s], inbox[s], {}, {n})
      BY <1>1, <1>5, <2>1, <2>2, Names, ReplyPosts, ReplyTakes DEF IInv
    <2>4. ASSUME NEW t \in Sellers, NEW q \in Rounds, NEW p \in Asks, Asked(t, q, p)'
          PROVE  Asked(t, q, p) \/ (t = s /\ q = r /\ p = price)
      <3>1. quoted'[t][q] = p => quoted[t][q] = p \/ (t = s /\ q = r /\ p = price)
        BY <1>5 DEF IInv, TypeOK
      <3>2. ASSUME NEW i \in DOMAIN inbox'[Buyer], IsBid(t, q, p, i)'
            PROVE  Asked(t, q, p) \/ (t = s /\ q = r /\ p = price)
        <4>1. \/ \E j \in DOMAIN inbox[Buyer] : inbox'[Buyer][i] = inbox[Buyer][j]
              \/ inbox'[Buyer][i] = m
          BY <2>3, Names, OldOrNew
        <4> QED BY <2>2, <3>2, <4>1 DEF IsBid, Asked
      <3>3. (\E i \in Issues : Granted(i, t, q)' /\ deal'[i].price = p) => Asked(t, q, p)
        BY <1>2 DEF Asked, Granted
      <3> QED BY <1>2, <2>4, <3>1, <3>2, <3>3 DEF Asked
    <2>5. OnePrice'
      <3> SUFFICES ASSUME NEW t \in Sellers, NEW q \in Rounds, NEW x \in Asks, NEW y \in Asks,
                          Asked(t, q, x)', Asked(t, q, y)'
                   PROVE  x = y
        BY DEF OnePrice
      <3> QED BY <1>3, <2>4 DEF FirstLife, OnePrice
    <2>6. NotAskedYet'
      <3> SUFFICES ASSUME NEW t \in Sellers, NEW q \in Rounds, q > round, NEW p \in Asks, Asked(t, q, p)'
                   PROVE  FALSE
        BY <1>2 DEF NotAskedYet
      <3>1. r \in Nat /\ q \in Nat /\ round \in Nat
        BY MarketAssumption DEF MarketAssumption, IInv, TypeOK, Rounds
      <3>2. q # r
        BY <1>3, <3>1
      <3> QED BY <2>4, <3>2 DEF FirstLife, NotAskedYet
    <2>7. WantedOnce'
      <3> SUFFICES ASSUME NEW t \in Sellers, NEW q \in Rounds, NEW i \in DOMAIN inbox'[t], IsWant(t, q, i)'
                   PROVE  /\ q <= round'
                          /\ \A p \in Asks : ~ Asked(t, q, p)'
                          /\ \A j \in DOMAIN inbox'[t] : IsWant(t, q, j)' => i = j
        BY DEF WantedOnce
      <3>1. ~ (t = s /\ q = r)
        <4>1. t = s => \E j \in DOMAIN inbox[s] : j # n /\ inbox'[s][i] = inbox[s][j]
          BY <1>1, <2>3 DEF Came
        <4> QED BY <1>3, <4>1 DEF IsWant
      <3>2. \A p \in Asks : Asked(t, q, p)' => Asked(t, q, p)
        BY <2>4, <3>1
      <3> QED BY <1>2, <2>2, <2>3, <3>2, WantKept DEF FirstLife
    <2>8. Told
      BY <1>2 DEF Told
    <2>9. HonestMail'
      BY <2>2, <2>3, <2>8, HonestKept DEF Honest, FirstLife, IInv
    <2>10. OneDealARound' /\ FairEscrows'
      BY <1>2 DEF FirstLife, OneDealARound, FairEscrows
    <2>11. AtItsDeal'
      BY <1>2, <2>8, StillAtItsDeal DEF FirstLife
    <2> QED BY <2>5, <2>6, <2>7, <2>9, <2>10, <2>11 DEF FirstLife
  <1> QED BY <1>1, <1>4, <1>5 DEF ReceiveWant

\* The terms a seller sends ask what it bid: its price of the round, which is
\* the price the authorization of that round was issued for.
LEMMA ProceedLife ==
  ASSUME IInv, FirstLife, NEW s \in Sellers, NEW n \in DOMAIN inbox[s], NEW r \in Rounds,
         NEW prices \in [Rounds -> Prices \cup {None}], NEW tokens \in [Rounds -> Issues \cup {None}],
         ProceedIfReady(s, n, r, prices, tokens),
         \A q \in Rounds : tokens[q] # None => Granted(tokens[q], s, q),
         \A q \in Rounds : prices[q] \in {pending[s][q], quoted[s][q]},
         \A t \in Sellers, q \in Rounds : quoted'[t][q] \in {quoted[t][q], None},
         UNCHANGED <<buyerVars, escrowVars, deal>>
  PROVE  FirstLife'
  <1>. DEFINE k == <<tokens[r], r>>
              m == [type |-> "ESCROW_REQUIRED", round |-> r, reference |-> k,
                    seller |-> WalletOf[s], amount |-> prices[r], arbitrated |-> s \in ArbiterSellers]
  <1>1. UNCHANGED <<pc, round, bids, winner, issue, terms, order, locked, deal>>
    BY DEF buyerVars, escrowVars
  <1>2. ASSUME NEW p \in [Rounds -> Prices \cup {None}], pending' = [pending EXCEPT ![s] = p],
               \A q \in Rounds : p[q] \in {prices[q], None}
        PROVE  \A t \in Sellers, q \in Rounds :
                 /\ quoted'[t][q] \in {quoted[t][q], None}
                 /\ pending'[t][q] \in {pending[t][q], quoted[t][q], None}
    BY <1>2 DEF IInv, TypeOK
  <1>3. [prices EXCEPT ![r] = None] \in [Rounds -> Prices \cup {None}]
    OBVIOUS
  <1>4. \A q \in Rounds : [prices EXCEPT ![r] = None][q] \in {prices[q], None}
    OBVIOUS
  <1>5. CASE /\ Take(s, n) /\ UNCHANGED progress
             /\ \/ pending' = [pending EXCEPT ![s] = prices]
                \/ pending' = [pending EXCEPT ![s] = [prices EXCEPT ![r] = None]]
    <2>1. Post({}, Hush) /\ Hush.type = "AWARD"
      BY <1>5, Names, TakePosts DEF IInv, Hush
    <2>2. \A t \in Sellers, q \in Rounds :
            /\ quoted'[t][q] \in {quoted[t][q], None}
            /\ pending'[t][q] \in {pending[t][q], quoted[t][q], None}
      BY <1>2, <1>3, <1>4, <1>5
    <2> QED BY <1>1, <1>5, <2>1, <2>2, CalmLife
  <1>6. CASE /\ prices[r] # None /\ tokens[r] # None
             /\ pending' = [pending EXCEPT ![s] = [prices EXCEPT ![r] = None]]
             /\ progress' = [progress EXCEPT ![k] = IF @ = "none" THEN "verified" ELSE @]
             /\ TakeAndReply(s, n, Buyer, m)
    <2>1. prices[r] \in Asks /\ tokens[r] \in Issues /\ k \in References
      BY <1>6, Names DEF Asks
    <2>2. m \in Messages
      <3>1. prices[r] \in Prices /\ (s \in ArbiterSellers) \in BOOLEAN
        BY <2>1 DEF Asks
      <3> QED BY <2>1, <3>1, Names, MessagesMade
    <2>3. PICK x \in Messages : x = m
      BY <2>2
    <2>4. /\ x.type = "ESCROW_REQUIRED" /\ x.round = r /\ x.reference[1] = tokens[r]
          /\ x.reference[2] = r /\ x.amount = prices[r]
      BY <2>3
    <2>5. Post({Buyer}, x)
      BY <1>6, <2>3, Names, ReplyPosts DEF IInv
    <2>6. Granted(tokens[r], s, r)
      BY <1>6
    <2>7. prices[r] = deal[tokens[r]].price
      <3>1. Asked(s, r, prices[r])
        BY <2>1 DEF Asked
      <3>2. deal[tokens[r]].price \in Asks
        BY <2>1, <2>6 DEF Granted, IInv, TypeOK, Deals, FirstLife, OneDealARound, Asks
      <3>3. Asked(s, r, deal[tokens[r]].price)
        BY <2>1, <2>6 DEF Asked
      <3> QED BY <2>1, <3>1, <3>2, <3>3 DEF FirstLife, OnePrice
    <2>8. Honest(x)'
      BY <1>1, <2>4, <2>6, <2>7 DEF Honest, Granted
    <2>9. \A j \in References : progress[j] = "reported" => progress'[j] = "reported"
      BY <1>6, <2>1 DEF IInv, TypeOK
    <2>10. \A t \in Sellers, q \in Rounds :
             /\ quoted'[t][q] \in {quoted[t][q], None}
             /\ pending'[t][q] \in {pending[t][q], quoted[t][q], None}
      BY <1>2, <1>3, <1>4, <1>6
    <2> HIDE DEF k, m
    <2> QED BY <1>1, <2>4, <2>5, <2>8, <2>9, <2>10, CalmLife
  <1> QED BY <1>5, <1>6 DEF ProceedIfReady

LEMMA ReceiveGrantLife ==
  ASSUME IInv, FirstLife, NEW s \in Sellers, NEW n \in Readable(s), ReceiveGrant(s, n)
  PROVE  FirstLife'
  <1>1. PICK m \in Messages : m = inbox[s][n]
    BY Names, ReadableFacts DEF IInv
  <1>2. /\ n \in DOMAIN inbox[s] /\ m.type = "GRANT" /\ m.round \in Rounds
        /\ UNCHANGED <<buyerVars, escrowVars, deal, quoted>>
    BY <1>1, Names, ReadableFacts, MessageFacts DEF ReceiveGrant, restOfSeller, IInv
  <1>3. PICK tokens : tokens = [grants[s] EXCEPT ![m.round] = m.issue]
    OBVIOUS
  <1>4. Granted(m.issue, s, m.round) /\ m.issue \in Issues
    BY <1>1, <1>2, Names, MessageFacts DEF IInv, Mail, Backed
  <1>5. grants[s] \in [Rounds -> Issues \cup {None}] /\ pending[s] \in [Rounds -> Prices \cup {None}]
    BY DEF IInv, TypeOK
  <1>6. /\ tokens \in [Rounds -> Issues \cup {None}]
        /\ \A q \in Rounds : tokens[q] # None => Granted(tokens[q], s, q)
    BY <1>2, <1>3, <1>4, <1>5 DEF IInv, Tokens
  <1>7. ProceedIfReady(s, n, m.round, pending[s], tokens)
    BY <1>1, <1>3 DEF ReceiveGrant
  <1> QED BY <1>2, <1>5, <1>6, <1>7, ProceedLife

LEMMA ReceiveAwardLife ==
  ASSUME IInv, FirstLife, NEW s \in Sellers, NEW n \in Readable(s), ReceiveAward(s, n)
  PROVE  FirstLife'
  <1>1. PICK r \in Rounds : r = inbox[s][n].round /\ n \in DOMAIN inbox[s]
    BY Names, ReadableFacts, MessageFacts DEF IInv
  <1>2. UNCHANGED <<buyerVars, escrowVars, deal>>
    BY DEF ReceiveAward, restOfSeller
  <1>3. quoted \in [Sellers -> [Rounds -> Prices \cup {None}]] /\ pending[s] \in [Rounds -> Prices \cup {None}]
    BY DEF IInv, TypeOK
  <1>4. CASE /\ quoted' = [quoted EXCEPT ![s][r] = None]
             /\ ProceedIfReady(s, n, r, [pending[s] EXCEPT ![r] = quoted[s][r]], grants[s])
    <2>1. PICK prices : prices = [pending[s] EXCEPT ![r] = quoted[s][r]]
      OBVIOUS
    <2>2. /\ prices \in [Rounds -> Prices \cup {None}]
          /\ \A q \in Rounds : prices[q] \in {pending[s][q], quoted[s][q]}
      BY <1>3, <2>1
    <2>3. \A t \in Sellers, q \in Rounds : quoted'[t][q] \in {quoted[t][q], None}
      BY <1>3, <1>4
    <2>4. /\ grants[s] \in [Rounds -> Issues \cup {None}]
          /\ \A q \in Rounds : grants[s][q] # None => Granted(grants[s][q], s, q)
      BY DEF IInv, TypeOK, Tokens
    <2> QED BY <1>1, <1>2, <1>4, <2>1, <2>2, <2>3, <2>4, ProceedLife
  <1>5. CASE Take(s, n) /\ UNCHANGED <<quoted, grants, pending, awarded, progress>>
    <2>1. Post({}, Hush) /\ Hush.type = "AWARD"
      BY <1>1, <1>5, Names, TakePosts DEF IInv, Hush
    <2>2. UNCHANGED <<pc, round, bids, winner, issue, terms, order, locked, deal>>
      BY <1>2 DEF buyerVars, escrowVars
    <2> QED BY <1>5, <2>1, <2>2, CalmLife
  <1> QED BY <1>1, <1>4, <1>5 DEF ReceiveAward

LEMMA ReceiveDepositedLife ==
  ASSUME IInv, FirstLife, NEW s \in Sellers, NEW n \in Readable(s), ReceiveDeposited(s, n)
  PROVE  FirstLife'
  <1>1. PICK k \in References :
          /\ n \in DOMAIN inbox[s] /\ Take(s, n) /\ progress[k] = "verified"
          /\ UNCHANGED progress \/ progress' = [progress EXCEPT ![k] = "begun"]
    BY ReceiveDepositedTyped, ReceiveDepositedSafe DEF IInv
  <1>2. UNCHANGED <<pc, round, bids, winner, issue, terms, order, locked, deal, quoted, pending>>
    BY DEF ReceiveDeposited, restOfSeller, buyerVars, escrowVars
  <1>3. Post({}, Hush) /\ Hush.type = "AWARD"
    BY <1>1, Names, TakePosts DEF IInv, Hush
  <1>4. \A j \in References : progress[j] = "reported" => progress'[j] = "reported"
    BY <1>1 DEF IInv, TypeOK
  <1> QED BY <1>2, <1>3, <1>4, CalmLife

\* A report goes out with the authorization of the job it is made for.
LEMMA JobLife ==
  ASSUME IInv, FirstLife, NEW s \in Sellers, StartScan(s) \/ Deliver(s) \/ Abandon(s)
  PROVE  FirstLife'
  <1>1. UNCHANGED <<pc, round, bids, winner, issue, terms, order, locked, deal, quoted, pending>>
    BY DEF StartScan, Deliver, Abandon, restOfJob, restOfSeller, buyerVars, escrowVars
  <1>2. CASE StartScan(s) \/ Abandon(s)
    <2>1. UNCHANGED <<inbox, progress>> /\ Hush.type = "AWARD"
      BY <1>2 DEF StartScan, Abandon, Hush
    <2>2. Post({}, Hush)
      BY <2>1, NothingPosted DEF IInv
    <2> QED BY <1>1, <2>1, <2>2, CalmLife
  <1>3. CASE Deliver(s)
    <2>1. PICK k \in References : k = job[s].reference /\ job[s] # None
      BY <1>3, JobTyped DEF IInv
    <2>2. k = <<k[1], k[2]>> /\ k[1] \in Issues /\ k[2] \in Rounds
      BY Names
    <2>3. PICK report \in Issues \cup {None} :
            /\ report \in {k[1], None}
            /\ inbox' = [inbox EXCEPT ![Buyer] =
                           Append(@, [type |-> "DELIVERED", round |-> k[2], report |-> report])]
      BY <1>3, <2>1, <2>2 DEF Deliver
    <2>4. PICK m \in Messages : m = [type |-> "DELIVERED", round |-> k[2], report |-> report]
      BY <2>2, MessagesMade
    <2>5. Send({Buyer}, m)
      <3>1. inbox \in [Agents -> Seq(Messages)]
        BY DEF IInv, TypeOK
      <3> QED BY <2>3, <2>4, <3>1 DEF Send
    <2>6. Post({Buyer}, m) /\ m.type = "DELIVERED" /\ m.round = k[2] /\ m.report = report
      BY <2>4, <2>5, SendPosts DEF IInv
    <2>7. progress' = [progress EXCEPT ![k] = "reported"]
      BY <1>3, <2>1 DEF Deliver
    <2>8. progress'[k] = "reported" /\ \A j \in References : progress[j] = "reported" => progress'[j] = "reported"
      BY <2>7 DEF IInv, TypeOK
    <2>9. deal[k[1]] # None
      BY <2>1 DEF IInv, Jobs, Escrows, Consented
    <2>10. Honest(m)'
      BY <1>1, <2>2, <2>3, <2>6, <2>8, <2>9 DEF Honest
    <2> QED BY <1>1, <2>6, <2>8, <2>10, CalmLife
  <1> QED BY <1>2, <1>3

LEMMA TimeLife ==
  ASSUME IInv, FirstLife, (\E i \in Issues : Lapse(i)) \/ (\E k \in References : DeadlinePasses(k))
  PROVE  FirstLife'
  <1>1. /\ Post({}, Hush) /\ UNCHANGED <<buyerVars, sellerVars, locked, historyVars>>
        /\ \/ UNCHANGED order
           \/ \E k \in References :
                /\ Settlement!Locked(k)
                /\ order' = [order EXCEPT ![k] = [order[k] EXCEPT !.place = "matured"]]
    BY TimeTyped DEF IInv
  <1>2. /\ Hush.type = "AWARD" /\ Told
        /\ UNCHANGED <<pc, round, bids, winner, issue, terms, deal, quoted, pending>>
    BY <1>1 DEF Hush, Told, buyerVars, sellerVars, historyVars
  <1>3. \A j \in References : order'[j] # None =>
          /\ order[j] # None /\ locked'[j] = locked[j]
          /\ order'[j].place = "paid" => order[j].place = "paid"
    <2>1. ASSUME NEW k \in References, Settlement!Locked(k),
                 order' = [order EXCEPT ![k] = [order[k] EXCEPT !.place = "matured"]]
          PROVE  /\ order[k] # None /\ order'[k].place = "matured"
                 /\ \A j \in References \ {k} : order'[j] = order[j]
      <3>1. "matured" \in Settlement!Places
        BY DEF Settlement!Places
      <3> QED BY <2>1, <3>1, MoveTyped DEF IInv
    <2> QED BY <1>1, <2>1
  <1>4. FairEscrows'
    BY <1>2, <1>3, FairEscrowsKept DEF FirstLife
  <1>5. AtItsDeal' /\ OneDealARound'
    BY <1>2, StillAtItsDeal DEF FirstLife, OneDealARound
  <1>6. NoNewAsk
    <2>1. \A s \in Sellers : bids'[s] \in Asks => Asked(s, round, bids'[s])
      BY <1>2 DEF Asked
    <2> QED BY <1>1, <1>2, <2>1, AskedBefore DEF IInv
  <1> QED BY <1>1, <1>2, <1>4, <1>5, <1>6, LifeStep

LEMMA FirstLifeStep ==
  ASSUME IInv, FirstLife, [Next]_vars, ~ BuyerRestarts
  PROVE  FirstLife'
  <1>1. CASE BuyerStep
    BY <1>1, WantLife, CollectBidLife, RoundFailsLife, AwardLife, GrantLife, ReceiveTermsLife, DepositLife,
       AnnounceLife, ReceiveReportLife, PayLife, MailOnlyLife DEF BuyerStep
  <1>2. ASSUME NEW s \in Sellers, Read(s)
        PROVE  FirstLife'
    BY <1>2, ReceiveWantLife, ReceiveGrantLife, ReceiveAwardLife, ReceiveDepositedLife DEF Read
  <1>3. CASE Environment
    BY <1>3, MailOnlyLife, SellerRestartsLife, TimeLife DEF Environment
  <1>4. CASE UNCHANGED vars
    <2>1. UNCHANGED <<inbox, pc, round, bids, winner, issue, terms, order, locked, deal, quoted, pending, progress>>
      BY <1>4 DEF vars, buyerVars, sellerVars, escrowVars, historyVars
    <2>2. Post({}, Hush) /\ Hush.type = "AWARD"
      BY <2>1, NothingPosted DEF IInv, Hush
    <2> QED BY <2>1, <2>2, CalmLife
  <1> QED BY <1>1, <1>2, <1>3, <1>4, JobLife DEF Next, SellerStep

LEMMA FirstLifeBegins ==
  ASSUME Init
  PROVE  FirstLife
  <1>1. /\ pc = "sleep" /\ \A s \in Sellers : bids[s] = None
        /\ \A i \in Issues : deal[i] = None
        /\ \A k \in References : order[k] = None
        /\ \A s \in Sellers, r \in Rounds : quoted[s][r] = None /\ pending[s][r] = None
    BY DEF Init, Settlement!Init, Empty
  <1>2. \A a \in Agents : DOMAIN inbox[a] = {}
    <2>1. DOMAIN <<>> = {}
      BY EmptySeq, LenProperties
    <2> QED BY <2>1 DEF Init
  <1>3. \A s \in Sellers, r \in Rounds, p \in Asks : ~ Asked(s, r, p)
    BY <1>1, <1>2, Names DEF Asked, Granted, Asks
  <1>4. OnePrice /\ NotAskedYet
    BY <1>3 DEF OnePrice, NotAskedYet
  <1>5. WantedOnce /\ HonestMail
    BY <1>2, Names DEF WantedOnce, HonestMail
  <1>6. OneDealARound /\ FairEscrows /\ AtItsDeal
    BY <1>1 DEF OneDealARound, FairEscrows, AtItsDeal
  <1> QED BY <1>4, <1>5, <1>6 DEF FirstLife

LEMMA LifeSafe == Spec => [](restarts = 0 => FirstLife)
  <1>1. Init => (restarts = 0 => FirstLife)
    BY FirstLifeBegins
  <1>2. IInv /\ (restarts = 0 => FirstLife) /\ [Next]_vars => (restarts = 0 => FirstLife)'
    <2> SUFFICES ASSUME IInv, restarts = 0 => FirstLife, [Next]_vars, restarts' = 0
                 PROVE  FirstLife'
      OBVIOUS
    <2>1. restarts \in Nat
      BY MarketAssumption DEF MarketAssumption, IInv, TypeOK
    <2>2. ~ BuyerRestarts
      BY <2>1 DEF BuyerRestarts
    <2>3. restarts = 0
      BY <2>2 DEF Next, BuyerStep, SellerStep, Environment, Want, CollectBid, NoSellers, Award, Grant, ReceiveTerms,
                  Deposit, Announce, ReceiveReport, Pay, Discard, RoundFails, Read, ReceiveWant, ReceiveGrant,
                  ReceiveAward, ReceiveDeposited, StartScan, Deliver, Abandon, Lose, SellerRestarts, Lapse,
                  DeadlinePasses, worldVars, restOfSeller, restOfJob, faultVars, vars
    <2> QED BY <2>2, <2>3, FirstLifeStep
  <1> QED BY <1>1, <1>2, Safe, PTL DEF Spec

\* As long as the buyer has not been restarted no deal is paid before its own
\* report was delivered, whatever sellers, mentions and deadlines do.
THEOREM NothingPaidUnreported == Spec => [](restarts = 0 => NoPayWithoutReport)
  <1>1. FirstLife => NoPayWithoutReport
    BY DEF FirstLife, FairEscrows, NoPayWithoutReport
  <1> QED BY <1>1, LifeSafe, PTL

\* As long as the buyer has not been restarted it locks what its chosen bid
\* asked, and the terms it reads for its round name the reference it derived.
THEOREM WhatWasBidIsPaid == Spec => [](restarts = 0 => PaysWhatWasBid)
  <1>1. ASSUME IInv, FirstLife PROVE PaysWhatWasBid
    <2>1. \A k \in References : order[k] # None => locked[k] = DealOf(k).price
      BY <1>1 DEF FirstLife, FairEscrows, DealOf
    <2>2. ASSUME pc = "terms", NEW n \in DOMAIN inbox[Buyer], Matches(inbox[Buyer][n])
          PROVE  inbox[Buyer][n].reference = <<issue, round>>
      <3>1. PICK m \in Messages : m = inbox[Buyer][n]
        BY <1>1, Names, OldMail DEF IInv
      <3>2. m.type = "ESCROW_REQUIRED" /\ m.round = round
        BY <2>2, <3>1 DEF Matches, Awaited
      <3>3. Honest(m) /\ Consented(m.reference, m.seller) /\ m.reference \in References
        BY <1>1, <3>1, <3>2, Names, MessageFacts DEF FirstLife, HonestMail, IInv, Mail, Backed, TermsMessage
      <3>4. /\ m.reference = <<m.reference[1], m.reference[2]>> /\ m.reference[1] \in Issues
            /\ m.reference[2] = round /\ deal[m.reference[1]] # None /\ deal[m.reference[1]].round = round
        BY <3>2, <3>3, Names DEF Honest, Consented
      <3>5. m.reference[1] = issue
        BY <1>1, <2>2, <3>4 DEF FirstLife, AtItsDeal, OneDealARound
      <3> QED BY <3>1, <3>4, <3>5
    <2> QED BY <2>1, <2>2 DEF PaysWhatWasBid
  <1>2. IInv /\ FirstLife => PaysWhatWasBid
    BY <1>1
  <1> QED BY <1>2, Safe, LifeSafe, PTL
=============================================================================
