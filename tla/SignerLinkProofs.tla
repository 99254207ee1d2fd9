---------------------------- MODULE SignerLinkProofs ----------------------------
(***************************************************************************)
(* Proofs about the signer link, for any number of exchanges and any       *)
(* limits: what is in a pipe or in the hands of the sidecar tells the      *)
(* truth about the replay cache, and a request is handled once.            *)
(***************************************************************************)
EXTENDS SignerLinkProperties, FiniteSetTheorems, SequenceTheorems, TLAPS

\* A positive answer on its way is the one the cache holds for its request.
Truthful(a) == a.answer = "ok" => a.to \in Requests /\ cache[a.to] = "ok"

Truth ==
  /\ Truthful(reply)
  /\ \A n \in 1..Len(responsePipe) : Truthful(responsePipe[n][2])
  /\ NoForeignAnswer

\* A request that is not wholly written, or is still in the pipe, has no answer
\* in the cache, and it is in the pipe once.
Fresh ==
  /\ \A r \in Requests : phase[r] \in {"new", "body"} =>
       /\ cache[r] = "none"
       /\ \A n \in 1..Len(requestPipe) : requestPipe[n] # <<"body", r>>
  /\ \A r \in Requests : \A n \in 1..Len(requestPipe) :
       requestPipe[n] = <<"body", r>> => cache[r] = "none"
  /\ \A r \in Requests : \A n1, n2 \in 1..Len(requestPipe) :
       requestPipe[n1] = <<"body", r>> /\ requestPipe[n2] = <<"body", r>> => n1 = n2

\* An answered kill is engaged.
Engaged == \A k \in Kills : cache[k] = "ok" => killed

Inv == TypeOK /\ Truth /\ Fresh /\ Engaged

USE DEF Parts, Answers, Replies, Nothing, service

----------------------------------------------------------------------------
\* What reading from the front of a pipe leaves in it.
LEMMA RestOfPipe ==
  ASSUME NEW S, NEW s \in Seq(S), NEW n \in 0..Len(s)
  PROVE  LET t == SubSeq(s, n + 1, Len(s))
         IN /\ t \in Seq(S) /\ Len(t) = Len(s) - n
            /\ \A i \in 1..Len(t) : i + n \in 1..Len(s) /\ t[i] = s[i + n]
OBVIOUS

LEMMA TailOfPipe ==
  ASSUME NEW S, NEW s \in Seq(S), s # <<>>
  PROVE  /\ Tail(s) \in Seq(S) /\ Len(Tail(s)) = Len(s) - 1
         /\ \A i \in 1..Len(Tail(s)) : i + 1 \in 1..Len(s) /\ Tail(s)[i] = s[i + 1]
         /\ Head(s) = s[1] /\ 1 \in 1..Len(s)
OBVIOUS

\* What writing to a pipe adds to it.
LEMMA MorePipe ==
  ASSUME NEW S, NEW s \in Seq(S), NEW x \in S
  PROVE  /\ Append(s, x) \in Seq(S) /\ Len(Append(s, x)) = Len(s) + 1
         /\ \A i \in 1..Len(s) : Append(s, x)[i] = s[i]
         /\ Append(s, x)[Len(s) + 1] = x
OBVIOUS

LEMMA FramedPipe ==
  ASSUME NEW s \in Seq(Parts \X Replies), NEW a \in Replies
  PROVE  LET t == s \o Frame(a)
         IN /\ t \in Seq(Parts \X Replies)
            /\ \A i \in 1..Len(t) : (i \in 1..Len(s) /\ t[i] = s[i]) \/ t[i][2] = a
<1>1. /\ Frame(a) \in Seq(Parts \X Replies) /\ Len(Frame(a)) = 2
      /\ Frame(a)[1][2] = a /\ Frame(a)[2][2] = a
  BY DEF Frame
<1>2. \A i \in 1..Len(s \o Frame(a)) :
        \/ i \in 1..Len(s) /\ (s \o Frame(a))[i] = s[i]
        \/ i - Len(s) \in {1, 2} /\ (s \o Frame(a))[i] = Frame(a)[i - Len(s)]
  BY <1>1, ConcatProperties
<1>3. s \o Frame(a) \in Seq(Parts \X Replies)
  BY <1>1, ConcatProperties
<1> QED BY <1>1, <1>2, <1>3

----------------------------------------------------------------------------
LEMMA InitInv == Init => Inv
<1> SUFFICES ASSUME Init PROVE Inv
  OBVIOUS
<1> USE LimitAssumption DEF Init
<1>1. TypeOK
  <2>1. <<>> \in Seq(Parts \X Requests) /\ <<>> \in Seq(Parts \X Replies)
    OBVIOUS
  <2>2. Nothing \in Replies OBVIOUS
  <2>3. 0 \in 0..MaxRequests OBVIOUS
  <2> QED BY <2>1, <2>2, <2>3 DEF TypeOK
<1>2. Truth BY DEF Truth, Truthful, NoForeignAnswer
<1>3. Fresh BY DEF Fresh
<1>4. Engaged BY DEF Engaged, Requests
<1> QED BY <1>1, <1>2, <1>3, <1>4 DEF Inv

\* A step of r that writes the body, reads or ends leaves no request unwritten
\* that was written.
LEMMA PhaseMoves ==
  ASSUME TypeOK, NEW r \in Requests, NEW p \in {"await", "read", "ended"}, Goto(r, p)
  PROVE  \A q \in Requests : phase'[q] \in {"new", "body"} => q # r /\ phase[q] \in {"new", "body"}
BY DEF TypeOK, Goto

\* The same requests are in the pipe and in the cache.
LEMMA FreshKept ==
  ASSUME Fresh, UNCHANGED <<requestPipe, cache>>,
         \A q \in Requests : phase'[q] \in {"new", "body"} => phase[q] \in {"new", "body"}
  PROVE  Fresh'
BY DEF Fresh

LEMMA WriteInv ==
  ASSUME Inv, NEW r \in Requests, Write(r)
  PROVE  Inv'
<1> USE DEF Inv, TypeOK
<1>1. CASE UNCHANGED requestPipe
  <2>1. TypeOK' BY <1>1 DEF Write, WriteSize, WriteBody, Written, Goto, End
  <2>2. Truth' BY <1>1 DEF Write, WriteSize, WriteBody, Written, Goto, End, Truth, Truthful,
                         NoForeignAnswer
  <2>3. Fresh'
    <3>1. requestPipe # Append(requestPipe, <<"size", r>>)
          /\ requestPipe # Append(requestPipe, <<"body", r>>)
      <4>1. <<"size", r>> \in Parts \X Requests /\ <<"body", r>> \in Parts \X Requests
        OBVIOUS
      <4>2. Len(requestPipe) \in Nat OBVIOUS
      <4> QED BY <4>1, <4>2, MorePipe
    <3>2. Goto(r, "ended")
      BY <1>1, <3>1 DEF Write, WriteSize, WriteBody, Written, End
    <3> QED BY <1>1, <3>2, PhaseMoves, FreshKept DEF Write
  <2>4. Engaged' BY DEF Write, Engaged
  <2> QED BY <2>1, <2>2, <2>3, <2>4
<1>2. CASE WriteSize(r) /\ requestPipe' = Append(requestPipe, <<"size", r>>)
                        /\ Goto(r, "body") /\ UNCHANGED outcome
  <2>0. /\ <<"size", r>> \in Parts \X Requests
        /\ requestPipe' \in Seq(Parts \X Requests)
        /\ Len(requestPipe') = Len(requestPipe) + 1
        /\ \A i \in 1..Len(requestPipe) : requestPipe'[i] = requestPipe[i]
        /\ requestPipe'[Len(requestPipe) + 1] = <<"size", r>>
    BY <1>2, MorePipe
  <2>1. TypeOK' BY <1>2, <2>0 DEF Write, Goto
  <2>2. Truth' BY <1>2 DEF Write, Truth, Truthful, NoForeignAnswer
  <2>3. Fresh'
    <3>1. \A q \in Requests : \A i \in 1..Len(requestPipe') :
            requestPipe'[i] = <<"body", q>> => i \in 1..Len(requestPipe) /\ requestPipe[i] = <<"body", q>>
      BY <2>0
    <3>2. \A q \in Requests : phase'[q] \in {"new", "body"} => phase[q] \in {"new", "body"}
      BY <1>2 DEF WriteSize, Goto
    <3>3. cache' = cache BY DEF Write
    <3>4. \A q \in Requests : phase'[q] \in {"new", "body"} =>
            /\ cache'[q] = "none"
            /\ \A n \in 1..Len(requestPipe') : requestPipe'[n] # <<"body", q>>
      BY <3>1, <3>2, <3>3 DEF Fresh
    <3>5. \A q \in Requests : \A n \in 1..Len(requestPipe') :
            requestPipe'[n] = <<"body", q>> => cache'[q] = "none"
      BY <3>1, <3>3 DEF Fresh
    <3>6. \A q \in Requests : \A n1, n2 \in 1..Len(requestPipe') :
            requestPipe'[n1] = <<"body", q>> /\ requestPipe'[n2] = <<"body", q>> => n1 = n2
      BY <3>1 DEF Fresh
    <3> QED BY <3>4, <3>5, <3>6 DEF Fresh
  <2>4. Engaged' BY DEF Write, Engaged
  <2> QED BY <2>1, <2>2, <2>3, <2>4
<1>3. CASE WriteBody(r) /\ requestPipe' = Append(requestPipe, <<"body", r>>)
                        /\ Goto(r, "await") /\ UNCHANGED outcome
  <2>0. /\ <<"body", r>> \in Parts \X Requests
        /\ requestPipe' \in Seq(Parts \X Requests)
        /\ Len(requestPipe') = Len(requestPipe) + 1
        /\ \A i \in 1..Len(requestPipe) : requestPipe'[i] = requestPipe[i]
        /\ requestPipe'[Len(requestPipe) + 1] = <<"body", r>>
    BY <1>3, MorePipe
  <2>1. TypeOK' BY <1>3, <2>0 DEF Write, Goto
  <2>2. Truth' BY <1>3 DEF Write, Truth, Truthful, NoForeignAnswer
  <2>3. Fresh'
    <3>1. \A q \in Requests : \A i \in 1..Len(requestPipe') :
            requestPipe'[i] = <<"body", q>> =>
              \/ i \in 1..Len(requestPipe) /\ requestPipe[i] = <<"body", q>>
              \/ i = Len(requestPipe) + 1 /\ q = r
      BY <2>0
    <3>2. /\ phase[r] \in {"new", "body"}
          /\ \A q \in Requests : phase'[q] \in {"new", "body"} =>
               q # r /\ phase[q] \in {"new", "body"}
      BY <1>3, PhaseMoves DEF WriteBody
    <3>3. cache' = cache BY DEF Write
    <3>4. \A q \in Requests : phase'[q] \in {"new", "body"} =>
            /\ cache'[q] = "none"
            /\ \A n \in 1..Len(requestPipe') : requestPipe'[n] # <<"body", q>>
      BY <3>1, <3>2, <3>3 DEF Fresh
    <3>5. \A q \in Requests : \A n \in 1..Len(requestPipe') :
            requestPipe'[n] = <<"body", q>> => cache'[q] = "none"
      BY <3>1, <3>2, <3>3 DEF Fresh
    <3>6. \A q \in Requests : \A n1, n2 \in 1..Len(requestPipe') :
            requestPipe'[n1] = <<"body", q>> /\ requestPipe'[n2] = <<"body", q>> => n1 = n2
      <4> SUFFICES ASSUME NEW q \in Requests,
                          NEW n1 \in 1..Len(requestPipe'), NEW n2 \in 1..Len(requestPipe'),
                          requestPipe'[n1] = <<"body", q>>, requestPipe'[n2] = <<"body", q>>
                   PROVE  n1 = n2
        OBVIOUS
      <4>1. CASE q = r
        <5>1. \A n \in 1..Len(requestPipe) : requestPipe[n] # <<"body", r>>
          BY <3>2 DEF Fresh
        <5> QED BY <3>1, <4>1, <5>1
      <4>2. CASE q # r
        BY <3>1, <4>2 DEF Fresh
      <4> QED BY <4>1, <4>2
    <3> QED BY <3>4, <3>5, <3>6 DEF Fresh
  <2>4. Engaged' BY DEF Write, Engaged
  <2> QED BY <2>1, <2>2, <2>3, <2>4
<1> QED BY <1>1, <1>2, <1>3 DEF Write, WriteSize, WriteBody, Written

\* The answer at the head of an answer pipe decides an exchange truthfully.
LEMMA VerifiedTruth ==
  ASSUME NEW r \in Requests, NEW a \in Replies, Truthful(a)
  PROVE  /\ Verified(r, a) \in {"ok", "refused", "unbound", "collision"}
         /\ Verified(r, a) = "ok" => cache[r] = "ok"
BY KindAssumption DEF Verified, Truthful

\* A read takes from the front of the answers and ends at most its exchange.
LEMMA ReadFacts ==
  ASSUME Inv, NEW r \in Requests, Read(r)
  PROVE  /\ responsePipe' \in Seq(Parts \X Replies)
         /\ \A i \in 1..Len(responsePipe') : Truthful(responsePipe'[i][2])
         /\ \/ Goto(r, "read") /\ UNCHANGED outcome
            \/ \E o \in {"ok", "refused", "unbound", "collision", "failed"} :
                 End(r, o) /\ (o = "ok" => cache[r] = "ok")
         /\ torn' \in BOOLEAN
         /\ phase[r] \in {"await", "read"}
<1> USE DEF Inv, TypeOK, Truth
<1>1. CASE ReadSize(r) \/ ReadBody(r)
  <2>0. /\ responsePipe # <<>> /\ responsePipe' = Tail(responsePipe)
        /\ Head(responsePipe) \in Parts \X Replies
        /\ Truthful(Head(responsePipe)[2])
    BY <1>1, TailOfPipe DEF ReadSize, ReadBody
  <2>1. /\ responsePipe' \in Seq(Parts \X Replies)
        /\ \A i \in 1..Len(responsePipe') : Truthful(responsePipe'[i][2])
    BY <2>0, TailOfPipe
  <2> QED BY <1>1, <2>0, <2>1, VerifiedTruth DEF ReadSize, ReadBody
<1>2. CASE ReadTorn(r)
  <2>1. PICK n \in 1..Len(responsePipe) :
          /\ responsePipe' = SubSeq(responsePipe, n + 1, Len(responsePipe))
          /\ \/ Goto(r, "read") /\ UNCHANGED outcome
             \/ End(r, "failed")
             \/ End(r, Verified(r, responsePipe[n][2]))
    BY <1>2 DEF ReadTorn
  <2>2. /\ responsePipe' \in Seq(Parts \X Replies)
        /\ \A i \in 1..Len(responsePipe') : Truthful(responsePipe'[i][2])
    BY <2>1, RestOfPipe
  <2>3. responsePipe[n][2] \in Replies /\ Truthful(responsePipe[n][2])
    OBVIOUS
  <2> QED BY <1>2, <2>1, <2>2, <2>3, VerifiedTruth DEF ReadTorn
<1>3. CASE ReadEnd(r)
  BY <1>3 DEF ReadEnd
<1> QED BY <1>1, <1>2, <1>3 DEF Read

LEMMA ReadInv ==
  ASSUME Inv, NEW r \in Requests, Read(r)
  PROVE  Inv'
<1> USE DEF Inv
<1>0. UNCHANGED <<requestPipe, sidecar, reply, served, service>>
  BY DEF Read
<1>a. PICK p \in {"read", "ended"} : Goto(r, p)
  BY ReadFacts DEF End
<1>1. TypeOK'
  <2>1. phase' \in [Requests -> {"new", "body", "await", "read", "ended"}]
    BY <1>a DEF TypeOK, Goto
  <2>2. outcome' \in [Requests -> {"none", "ok", "refused", "unbound", "collision", "failed"}]
    BY ReadFacts DEF TypeOK, End
  <2>3. torn' \in BOOLEAN /\ responsePipe' \in Seq(Parts \X Replies)
    BY ReadFacts
  <2> QED BY <1>0, <2>1, <2>2, <2>3 DEF TypeOK
<1>2. Truth' BY <1>0, ReadFacts DEF TypeOK, Truth, Truthful, NoForeignAnswer, Goto, End
<1>3. Fresh' BY <1>0, <1>a, PhaseMoves, FreshKept
<1>4. Engaged' BY <1>0 DEF Engaged
<1> QED BY <1>1, <1>2, <1>3, <1>4

\* A request that is handled had no answer and gets one; a handled kill that is
\* answered positively is engaged, and a kill stays engaged.
LEMMA ServeFacts ==
  ASSUME Inv, NEW r \in Requests, Serve(r)
  PROVE  /\ cache[r] = "none"
         /\ \E a \in {"ok", "refused", "late"} : Answer(r, a)
         /\ killed' \in BOOLEAN /\ (killed => killed')
         /\ r \in Kills /\ cache'[r] = "ok" => killed'
         /\ executed' \subseteq Mutations
         /\ killed => executed' = executed
<1> USE DEF Inv, TypeOK
<1>1. cache[r] = "none" BY DEF Serve, Fresh
<1>2. CASE Late(r) BY <1>1, <1>2 DEF Late, Answer
<1>3. CASE Engage(r) BY <1>1, <1>3 DEF Engage, Settles, Answer
<1>4. CASE Gated(r) BY <1>1, <1>4, KindAssumption DEF Gated, Answer
<1>5. CASE Look(r)
  <2>1. r \notin Kills BY <1>5, KindAssumption DEF Look
  <2>2. killed' \in BOOLEAN /\ (killed => killed')
    <3>1. killed \in BOOLEAN OBVIOUS
    <3>2. killed' = killed \/ killed' = TRUE BY <1>5 DEF Look
    <3> QED BY <3>1, <3>2, Zenon
  <2>3. \E a \in {"ok", "refused", "late"} : Answer(r, a) BY <1>5 DEF Look, Settles
  <2> QED BY <1>1, <1>5, <2>1, <2>2, <2>3 DEF Look
<1>6. CASE Mutate(r)
  <2>1. r \notin Kills BY <1>6, KindAssumption DEF Mutate
  <2>2. killed' \in BOOLEAN BY <1>6 DEF Mutate
  <2>3. ~killed BY <1>6 DEF Mutate, Admitted
  <2>4. \E a \in {"ok", "refused", "late"} : Answer(r, a) BY <1>6 DEF Mutate, Settles
  <2>5. executed' \subseteq Mutations BY <1>6 DEF Mutate
  <2> QED BY <1>1, <2>1, <2>2, <2>3, <2>4, <2>5, Zenon
<1> QED BY <1>2, <1>3, <1>4, <1>5, <1>6 DEF Serve

LEMMA ServeInv ==
  ASSUME Inv, NEW r \in Requests, Serve(r), UNCHANGED <<phase, outcome, torn>>
  PROVE  Inv'
<1> USE DEF Inv
<1>0. /\ requestPipe' \in Seq(Parts \X Requests)
      /\ Len(requestPipe') = Len(requestPipe) - 2
      /\ \A i \in 1..Len(requestPipe') :
           i + 2 \in 1..Len(requestPipe) /\ requestPipe'[i] = requestPipe[i + 2]
      /\ requestPipe[2] = <<"body", r>> /\ 2 \in 1..Len(requestPipe)
  <2>1. requestPipe' = SubSeq(requestPipe, 2 + 1, Len(requestPipe)) /\ 2 \in 0..Len(requestPipe)
    BY DEF Serve, TypeOK
  <2> QED BY <2>1, RestOfPipe DEF Serve, TypeOK
<1>1. PICK a \in {"ok", "refused", "late"} : Answer(r, a)
  BY ServeFacts
<1>2. /\ reply' = [to |-> r, answer |-> a]
      /\ cache' = [cache EXCEPT ![r] = a]
      /\ cache \in [Requests -> {"none", "ok", "refused", "late"}]
  BY <1>1 DEF Answer, TypeOK
<1>3. \A q \in Requests : q # r => cache'[q] = cache[q]
  BY <1>2
<1>4. cache[r] = "none" /\ cache'[r] = a
  BY <1>2, ServeFacts
<1>5. TypeOK'
  BY <1>0, <1>2, ServeFacts, LimitAssumption DEF TypeOK, Serve, Listening
<1>6. Truth' BY <1>2, <1>3, <1>4 DEF Truth, Truthful, NoForeignAnswer, Serve, TypeOK
<1>7. Fresh'
  <2>1. \A q \in Requests : \A i \in 1..Len(requestPipe') :
          requestPipe'[i] = <<"body", q>> => q # r /\ requestPipe[i + 2] = <<"body", q>>
    <3> SUFFICES ASSUME NEW q \in Requests, NEW i \in 1..Len(requestPipe'),
                        requestPipe'[i] = <<"body", q>>
                 PROVE  q # r /\ requestPipe[i + 2] = <<"body", q>>
      OBVIOUS
    <3>1. i + 2 \in 1..Len(requestPipe) /\ requestPipe[i + 2] = <<"body", q>> /\ i + 2 # 2
      BY <1>0 DEF TypeOK
    <3> QED BY <1>0, <3>1 DEF Fresh
  <2>2. phase[r] \notin {"new", "body"} BY <1>0 DEF Fresh
  <2>3. \A q \in Requests : phase'[q] \in {"new", "body"} =>
          /\ cache'[q] = "none"
          /\ \A n \in 1..Len(requestPipe') : requestPipe'[n] # <<"body", q>>
    BY <1>0, <1>3, <2>1, <2>2 DEF Fresh
  <2>4. \A q \in Requests : \A n \in 1..Len(requestPipe') :
          requestPipe'[n] = <<"body", q>> => cache'[q] = "none"
    BY <1>0, <1>3, <2>1 DEF Fresh
  <2>5. \A q \in Requests : \A n1, n2 \in 1..Len(requestPipe') :
          requestPipe'[n1] = <<"body", q>> /\ requestPipe'[n2] = <<"body", q>> => n1 = n2
    <3> SUFFICES ASSUME NEW q \in Requests,
                        NEW n1 \in 1..Len(requestPipe'), NEW n2 \in 1..Len(requestPipe'),
                        requestPipe'[n1] = <<"body", q>>, requestPipe'[n2] = <<"body", q>>
                 PROVE  n1 = n2
      OBVIOUS
    <3>2. n1 \in Int /\ n2 \in Int OBVIOUS
    <3>a. n1 + 2 \in 1..Len(requestPipe) /\ requestPipe[n1 + 2] = <<"body", q>>
      BY <1>0
    <3>b. n2 + 2 \in 1..Len(requestPipe) /\ requestPipe[n2 + 2] = <<"body", q>>
      BY <1>0
    <3>c. \A i, j \in 1..Len(requestPipe) :
            requestPipe[i] = <<"body", q>> /\ requestPipe[j] = <<"body", q>> => i = j
      BY DEF Fresh
    <3>1. n1 + 2 = n2 + 2 BY <3>a, <3>b, <3>c
    <3> QED BY <3>1, <3>2
  <2> QED BY <2>3, <2>4, <2>5 DEF Fresh
<1>8. Engaged'
  <2>1. \A k \in Kills : k \in Requests BY DEF Requests
  <2> QED BY <1>3, <2>1, ServeFacts DEF Engaged
<1> QED BY <1>5, <1>6, <1>7, <1>8

LEMMA SidecarInv ==
  ASSUME Inv, Garbled \/ Respond \/ Lost \/ Exit, UNCHANGED <<phase, outcome, torn>>
  PROVE  Inv'
<1> USE DEF Inv, TypeOK
<1>0. /\ UNCHANGED <<requestPipe, service>>
      /\ Truthful(Nothing) /\ Nothing \in Replies
  BY DEF Garbled, Respond, Lost, Exit, Truthful
<1>1. /\ responsePipe' \in Seq(Parts \X Replies)
      /\ \A i \in 1..Len(responsePipe') : Truthful(responsePipe'[i][2])
      /\ reply' \in Replies /\ Truthful(reply')
  <2>1. CASE responsePipe' \in {responsePipe, responsePipe \o Frame(Nothing)}
             /\ reply' \in {reply, Nothing}
    <3>1. CASE responsePipe' = responsePipe
      BY <2>1, <3>1, <1>0 DEF Truth
    <3>2. CASE responsePipe' = responsePipe \o Frame(Nothing)
      BY <2>1, <3>2, <1>0, FramedPipe DEF Truth
    <3> QED BY <2>1, <3>1, <3>2
  <2>2. CASE responsePipe' = responsePipe \o Frame(reply) /\ reply' = Nothing
    BY <2>2, <1>0, FramedPipe DEF Truth
  <2>3. CASE responsePipe' = Append(responsePipe, <<"size", reply>>) /\ reply' = Nothing
    <3>1. <<"size", reply>> \in Parts \X Replies OBVIOUS
    <3>2. /\ responsePipe' \in Seq(Parts \X Replies)
          /\ Len(responsePipe') = Len(responsePipe) + 1
          /\ \A i \in 1..Len(responsePipe) : responsePipe'[i] = responsePipe[i]
          /\ responsePipe'[Len(responsePipe) + 1] = <<"size", reply>>
      BY <2>3, <3>1, MorePipe
    <3> QED BY <1>0, <2>3, <3>2 DEF Truth
  <2> QED BY <2>1, <2>2, <2>3 DEF Garbled, Respond, Lost, Exit
<1>2. TypeOK'
  BY <1>0, <1>1, LimitAssumption DEF Garbled, Respond, Lost, Exit, Listening
<1>3. Truth' BY <1>0, <1>1 DEF Truth, Truthful, NoForeignAnswer
<1>4. Fresh' BY <1>0 DEF Fresh
<1>5. Engaged' BY <1>0 DEF Engaged
<1> QED BY <1>2, <1>3, <1>4, <1>5

LEMMA NextInv == Inv /\ [Next]_vars => Inv'
<1> SUFFICES ASSUME Inv, [Next]_vars PROVE Inv'
  OBVIOUS
<1>1. CASE \E r \in Requests : Write(r) \/ Read(r)
  BY <1>1, WriteInv, ReadInv
<1>2. CASE Sidecar
  BY <1>2, ServeInv, SidecarInv DEF Sidecar
<1>3. CASE UNCHANGED vars
  <2>1. TypeOK' BY <1>3 DEF vars, Inv, TypeOK
  <2>2. Truth' BY <1>3 DEF vars, Inv, Truth, Truthful, NoForeignAnswer
  <2>3. Fresh' BY <1>3, FreshKept DEF vars, Inv
  <2>4. Engaged' BY <1>3 DEF vars, Inv, Engaged
  <2> QED BY <2>1, <2>2, <2>3, <2>4 DEF Inv
<1> QED BY <1>1, <1>2, <1>3 DEF Next

LEMMA InvHolds == Spec => []Inv
BY InitInv, NextInv, PTL DEF Spec

----------------------------------------------------------------------------
\* The variables keep their types (_exchange, run_signer_sidecar).
THEOREM TypesHold == Spec => []TypeOK
<1>1. Inv => TypeOK BY DEF Inv
<1> QED BY <1>1, InvHolds, PTL

\* However many threads share the pipes, an exchange succeeds only on the
\* sidecar's own positive answer to it (_verified_response).
THEOREM AnswersAreOwn == Spec => []NoForeignAnswer
<1>1. Inv => NoForeignAnswer BY DEF Inv, Truth
<1> QED BY <1>1, InvHolds, PTL

\* Once a thread holds the acknowledgement of a kill, no mutation is handled
\* again (_engage_kill, _handle_uncached).
THEOREM AcknowledgedKills == Spec => AcknowledgedKillHolds
<1>1. Inv /\ [Next]_vars =>
        [(\E k \in Kills : outcome[k] = "ok") => executed' = executed]_vars
  <2> SUFFICES ASSUME Inv, Next, NEW k \in Kills, outcome[k] = "ok"
               PROVE  executed' = executed
    BY DEF vars
  <2>1. killed
    <3>1. k \in Requests BY DEF Requests
    <3> QED BY <3>1 DEF Inv, Truth, NoForeignAnswer, Engaged
  <2>2. CASE \E r \in Requests : Write(r) \/ Read(r)
    BY <2>2 DEF Write, Read
  <2>3. CASE Sidecar
    BY <2>1, <2>3, ServeFacts DEF Sidecar, Garbled, Respond, Lost, Exit
  <2> QED BY <2>2, <2>3 DEF Next
<1> QED BY <1>1, InvHolds, PTL DEF Spec, AcknowledgedKillHolds

\* A kill written to a running sidecar is engaged, late or still in the pipe,
\* whatever its own exchange raised (_handle_uncached).
THEOREM KillsLand == Spec => []KillNotLost
<1>1. Init => KillNotLost
  <2> SUFFICES ASSUME Init PROVE KillNotLost OBVIOUS
  <2> QED BY DEF Init, KillNotLost, Requests
<1>2. Inv /\ KillNotLost /\ [Next]_vars => KillNotLost'
  <2> SUFFICES ASSUME Inv, KillNotLost, [Next]_vars, NEW k \in Kills,
                      phase'[k] \in {"await", "read", "ended"},
                      sidecar' \in {"listening", "answering"}
               PROVE  \/ killed' \/ cache'[k] = "late"
                      \/ \E n \in DOMAIN requestPipe' : requestPipe'[n] = <<"body", k>>
    BY DEF KillNotLost
  <2>0. k \in Requests /\ TypeOK BY DEF Requests, Inv
  <2> DEFINE InPipe == \E n \in 1..Len(requestPipe) : requestPipe[n] = <<"body", k>>
  <2>a. /\ requestPipe \in Seq(Parts \X Requests) /\ DOMAIN requestPipe = 1..Len(requestPipe)
        /\ phase \in [Requests -> {"new", "body", "await", "read", "ended"}]
    BY <2>0 DEF TypeOK
  <2>1. ASSUME NEW r \in Requests, Write(r)
        PROVE  \/ killed' \/ cache'[k] = "late"
               \/ \E n \in DOMAIN requestPipe' : requestPipe'[n] = <<"body", k>>
    <3>1. /\ UNCHANGED <<sidecar, cache, killed>> /\ sidecar # "exited"
      BY <2>1 DEF Write
    <3>2. PICK part \in Parts : requestPipe' = Append(requestPipe, <<part, r>>)
      BY <2>1, <3>1 DEF Write, WriteSize, WriteBody, Written
    <3>3. <<part, r>> \in Parts \X Requests OBVIOUS
    <3>4. /\ DOMAIN requestPipe' = 1..(Len(requestPipe) + 1)
          /\ \A i \in 1..Len(requestPipe) : requestPipe'[i] = requestPipe[i]
          /\ requestPipe'[Len(requestPipe) + 1] = <<part, r>>
          /\ Len(requestPipe) + 1 \in 1..(Len(requestPipe) + 1)
          /\ 1..Len(requestPipe) \subseteq 1..(Len(requestPipe) + 1)
      BY <2>a, <3>2, <3>3, MorePipe
    <3>5. CASE phase[k] \in {"await", "read", "ended"}
      <4>1. killed \/ cache[k] = "late" \/ InPipe
        BY <2>a, <3>1, <3>5 DEF KillNotLost
      <4> QED BY <3>1, <3>4, <4>1
    <3>6. CASE phase[k] \notin {"await", "read", "ended"}
      <4>1. r = k /\ part = "body"
        <5>1. \/ Goto(r, "body")
              \/ Goto(r, "await") /\ requestPipe' = Append(requestPipe, <<"body", r>>)
          BY <2>1, <3>1 DEF Write, WriteSize, WriteBody, Written
        <5>2. r = k BY <2>0, <2>a, <3>6, <5>1 DEF Goto
        <5>3. ~Goto(k, "body") BY <2>0, <2>a DEF Goto
        <5>4. requestPipe' = Append(requestPipe, <<"body", k>>)
          BY <5>1, <5>2, <5>3
        <5>5. <<"body", k>> \in Parts \X Requests BY <2>0
        <5>6. requestPipe'[Len(requestPipe) + 1] = <<"body", k>>
          BY <2>a, <5>4, <5>5, MorePipe
        <5> QED BY <3>4, <5>2, <5>6
      <4> QED BY <3>4, <4>1
    <3> QED BY <3>5, <3>6
  <2>2. ASSUME NEW r \in Requests, Read(r)
        PROVE  \/ killed' \/ cache'[k] = "late"
               \/ \E n \in DOMAIN requestPipe' : requestPipe'[n] = <<"body", k>>
    <3>1. UNCHANGED <<sidecar, cache, killed, requestPipe>>
      BY <2>2 DEF Read
    <3>2. phase[k] \in {"await", "read", "ended"}
      <4>1. phase[r] \in {"await", "read"} /\ \E p \in {"read", "ended"} : Goto(r, p)
        BY <2>2, ReadFacts DEF End
      <4> QED BY <2>0, <2>a, <4>1 DEF Goto
    <3> QED BY <3>1, <3>2 DEF KillNotLost
  <2>3. ASSUME NEW r \in Requests, Serve(r), UNCHANGED <<phase, outcome, torn>>
        PROVE  \/ killed' \/ cache'[k] = "late"
               \/ \E n \in DOMAIN requestPipe' : requestPipe'[n] = <<"body", k>>
    <3>1. killed \/ cache[k] = "late" \/ InPipe
      BY <2>a, <2>3 DEF KillNotLost, Serve, Listening
    <3>2. CASE killed
      BY <2>3, <3>2, ServeFacts
    <3>3. CASE cache[k] = "late"
      <4>1. r # k BY <2>3, <3>3, ServeFacts
      <4> QED BY <2>0, <2>3, <3>3, <4>1, ServeFacts DEF Answer, TypeOK
    <3>4. CASE InPipe /\ r = k
      BY <2>0, <2>3, <3>4, KindAssumption
         DEF Serve, Late, Engage, Gated, Look, Mutate, Settles, Answer, TypeOK
    <3>5. CASE InPipe /\ r # k
      <4>1. PICK n \in 1..Len(requestPipe) : requestPipe[n] = <<"body", k>>
        BY <3>5
      <4>2. n # 1 /\ n # 2
        BY <2>3, <3>5, <4>1 DEF Serve
      <4>3. /\ requestPipe' = SubSeq(requestPipe, 2 + 1, Len(requestPipe))
            /\ 2 \in 0..Len(requestPipe)
        BY <2>3, <2>a DEF Serve
      <4>4. /\ Len(requestPipe') = Len(requestPipe) - 2
            /\ DOMAIN requestPipe' = 1..Len(requestPipe')
            /\ \A i \in 1..Len(requestPipe') : requestPipe'[i] = requestPipe[i + 2]
        BY <2>a, <4>3, RestOfPipe
      <4>5. n - 2 \in 1..Len(requestPipe') /\ (n - 2) + 2 = n
        BY <2>a, <4>2, <4>4
      <4> QED BY <4>1, <4>4, <4>5
    <3> QED BY <3>1, <3>2, <3>3, <3>4, <3>5
  <2>4. CASE (Garbled \/ Respond \/ Lost \/ Exit) /\ UNCHANGED <<phase, outcome, torn>>
    BY <2>a, <2>4 DEF Garbled, Respond, Lost, Exit, KillNotLost
  <2>5. CASE UNCHANGED vars
    BY <2>5 DEF vars, KillNotLost
  <2> QED BY <2>1, <2>2, <2>3, <2>4, <2>5 DEF Next, Sidecar
<1> QED BY <1>1, <1>2, InvHolds, PTL DEF Spec

----------------------------------------------------------------------------
\* Every cached answer was an iteration of the loop.
Counted == IsFiniteSet(Cached) /\ Cardinality(Cached) <= served

LEMMA CountedHolds == Spec => []Counted
<1>1. Init => Counted
  <2> SUFFICES ASSUME Init PROVE Counted OBVIOUS
  <2>1. Cached = {} BY DEF Init, Cached
  <2> QED BY <2>1, FS_EmptySet DEF Init, Counted
<1>2. Inv /\ Counted /\ [Next]_vars => Counted'
  <2> SUFFICES ASSUME Inv, Counted, [Next]_vars PROVE Counted'
    OBVIOUS
  <2>1. served \in Nat BY LimitAssumption DEF Inv, TypeOK
  <2>2. CASE cache' = cache /\ served' \in {served, served + 1}
    <3>1. Cached' = Cached BY <2>2 DEF Cached
    <3>2. Cardinality(Cached) \in Nat BY FS_CardinalityType DEF Counted
    <3> QED BY <2>1, <2>2, <3>1, <3>2 DEF Counted
  <2>3. CASE \E r \in Requests : Serve(r)
    <3>1. PICK r \in Requests : Serve(r) BY <2>3
    <3>2. \E a \in {"ok", "refused", "late"} : cache' = [cache EXCEPT ![r] = a]
      BY <3>1, ServeFacts DEF Answer
    <3>3. Cached' = Cached \cup {r}
      BY <3>2 DEF Cached, Inv, TypeOK
    <3>4. r \notin Cached BY <3>1, ServeFacts DEF Cached
    <3>5. /\ IsFiniteSet(Cached \cup {r})
          /\ Cardinality(Cached \cup {r}) = Cardinality(Cached) + 1
          /\ Cardinality(Cached) \in Nat
      BY <3>4, FS_AddElement, FS_CardinalityType DEF Counted
    <3>6. served' = served + 1 BY <3>1 DEF Serve
    <3> QED BY <2>1, <3>3, <3>5, <3>6 DEF Counted
  <2> QED BY <2>2, <2>3
          DEF Next, vars, Write, Read, Sidecar, Garbled, Respond, Lost, Exit
<1> QED BY <1>1, <1>2, InvHolds, PTL DEF Spec

\* The replay cache never refuses a request, at any limits with MaxRequests no
\* greater than MaxCache (run_signer_sidecar, _handle_bytes_locked).
THEOREM CacheSuffices == Spec => []CacheNeverRefuses
<1>1. Inv /\ Counted => CacheNeverRefuses
  <2> SUFFICES ASSUME Inv, Counted, Listening PROVE Cardinality(Cached) < MaxCache
    BY DEF CacheNeverRefuses
  <2>1. Cardinality(Cached) \in Nat /\ served \in Nat
    BY FS_CardinalityType, LimitAssumption DEF Counted, Inv, TypeOK
  <2> QED BY <2>1, LimitAssumption DEF Counted, Listening
<1> QED BY <1>1, InvHolds, CountedHolds, PTL

----------------------------------------------------------------------------
\* Every part in the request pipe is of a request that has begun and is not
\* answered, and no part is there twice.
Asked ==
  /\ \A n \in 1..Len(requestPipe) :
       phase[requestPipe[n][2]] # "new" /\ cache[requestPipe[n][2]] = "none"
  /\ \A n1, n2 \in 1..Len(requestPipe) : requestPipe[n1] = requestPipe[n2] => n1 = n2

\* Whose answers a pipe holds such a part of, and that it holds each part once.
OnWay(pipe, part) ==
  {r \in Requests : \E n \in 1..Len(pipe) : pipe[n][1] = part /\ pipe[n][2].to = r}

Once(pipe) ==
  \A n1, n2 \in 1..Len(pipe) :
    pipe[n1][1] = pipe[n2][1] /\ pipe[n1][2].to = pipe[n2][2].to => n1 = n2

\* The answers of which the threads have taken such a part.
Taken(part) == Cached \ (OnWay(responsePipe, part) \cup {reply.to})

Begun == {r \in Requests : phase[r] \in {"read", "ended"}}
Ended == {r \in Requests : phase[r] = "ended"}

\* Nobody has lost a frame's boundary, and the sidecar reads on.
Running == sidecar \in {"listening", "answering"} /\ ~torn

\* What was taken from the response pipe: one size by every thread that has
\* begun to read, one body by every thread that has ended, whosever they were.
Balanced ==
  /\ \A n \in 1..Len(responsePipe) : responsePipe[n][2].to \in Cached \ {reply.to}
  /\ Once(responsePipe)
  /\ sidecar = "listening" => reply.to = NoRequest
  /\ sidecar = "answering" => reply.to \in Cached
  /\ IsFiniteSet(Begun)
  /\ Cardinality(Taken("size")) = Cardinality(Begun)
  /\ Cardinality(Taken("body")) = Cardinality(Ended)

\* Taking the first part from an answer pipe.
LEMMA TakenPart ==
  ASSUME NEW s \in Seq(Parts \X Replies), s # <<>>, Once(s), NEW part \in Parts
  PROVE  /\ Once(Tail(s))
         /\ OnWay(Tail(s), part) = IF Head(s)[1] = part THEN OnWay(s, part) \ {Head(s)[2].to}
                                   ELSE OnWay(s, part)
<1>1. /\ Len(Tail(s)) = Len(s) - 1 /\ Len(s) \in Nat
      /\ \A i \in 1..Len(Tail(s)) : i + 1 \in 1..Len(s) /\ Tail(s)[i] = s[i + 1]
      /\ Head(s) = s[1] /\ 1 \in 1..Len(s)
  BY TailOfPipe
<1>2. \A i \in 2..Len(s) : i - 1 \in 1..Len(Tail(s)) /\ Tail(s)[i - 1] = s[i]
  BY <1>1
<1>3. Once(Tail(s))
  <2> SUFFICES ASSUME NEW n1 \in 1..Len(Tail(s)), NEW n2 \in 1..Len(Tail(s)),
                      Tail(s)[n1][1] = Tail(s)[n2][1], Tail(s)[n1][2].to = Tail(s)[n2][2].to
               PROVE  n1 = n2
    BY DEF Once
  <2>1. /\ n1 + 1 \in 1..Len(s) /\ n2 + 1 \in 1..Len(s)
        /\ Tail(s)[n1] = s[n1 + 1] /\ Tail(s)[n2] = s[n2 + 1]
    BY <1>1
  <2>2. s[n1 + 1][1] = s[n2 + 1][1] /\ s[n1 + 1][2].to = s[n2 + 1][2].to
    BY <2>1
  <2>3. n1 + 1 = n2 + 1
    BY <2>1, <2>2 DEF Once
  <2> QED BY <2>3
<1>4. \A r \in OnWay(Tail(s), part) :
        r \in OnWay(s, part) /\ ~(Head(s)[1] = part /\ Head(s)[2].to = r)
  <2> SUFFICES ASSUME NEW r \in Requests, NEW i \in 1..Len(Tail(s)),
                      Tail(s)[i][1] = part, Tail(s)[i][2].to = r
               PROVE  r \in OnWay(s, part) /\ ~(Head(s)[1] = part /\ Head(s)[2].to = r)
    BY DEF OnWay
  <2>1. i + 1 \in 1..Len(s) /\ s[i + 1][1] = part /\ s[i + 1][2].to = r /\ i + 1 # 1
    BY <1>1
  <2>2. ~(s[1][1] = part /\ s[1][2].to = r)
    BY <1>1, <2>1 DEF Once
  <2> QED BY <1>1, <2>1, <2>2 DEF OnWay
<1>5. \A r \in OnWay(s, part) :
        r \in OnWay(Tail(s), part) \/ (Head(s)[1] = part /\ Head(s)[2].to = r)
  <2> SUFFICES ASSUME NEW r \in Requests, NEW i \in 1..Len(s), s[i][1] = part, s[i][2].to = r
               PROVE  r \in OnWay(Tail(s), part) \/ (Head(s)[1] = part /\ Head(s)[2].to = r)
    BY DEF OnWay
  <2>1. CASE i = 1 BY <1>1, <2>1
  <2>2. CASE i # 1
    <3>1. i - 1 \in 1..Len(Tail(s)) /\ Tail(s)[i - 1] = s[i]
      BY <1>1, <1>2, <2>2
    <3> QED BY <3>1 DEF OnWay
  <2> QED BY <2>1, <2>2
<1> QED BY <1>3, <1>4, <1>5

\* Writing a whole answer to it.
LEMMA FramedParts ==
  ASSUME NEW s \in Seq(Parts \X Replies), Once(s), NEW a \in Replies, a.to \in Requests,
         \A n \in 1..Len(s) : s[n][2].to # a.to, NEW part \in Parts
  PROVE  /\ Once(s \o Frame(a))
         /\ OnWay(s \o Frame(a), part) = OnWay(s, part) \cup {a.to}
<1> DEFINE t == s \o Frame(a)
<1>1. /\ Frame(a) \in Seq(Parts \X Replies) /\ Len(Frame(a)) = 2
      /\ Frame(a)[1] = <<"size", a>> /\ Frame(a)[2] = <<"body", a>>
  BY DEF Frame
<1>2. /\ Len(t) = Len(s) + 2 /\ Len(s) \in Nat
      /\ \A i \in 1..Len(s) : i \in 1..Len(t) /\ t[i] = s[i]
      /\ t[Len(s) + 1] = <<"size", a>> /\ t[Len(s) + 2] = <<"body", a>>
  <2>1. /\ Len(t) = Len(s) + 2 /\ Len(s) \in Nat
        /\ \A i \in 1..(Len(s) + 2) :
             t[i] = IF i <= Len(s) THEN s[i] ELSE Frame(a)[i - Len(s)]
    <3>1. /\ Len(t) = Len(s) + Len(Frame(a))
          /\ \A i \in 1..(Len(s) + Len(Frame(a))) :
               t[i] = IF i <= Len(s) THEN s[i] ELSE Frame(a)[i - Len(s)]
      <4> HIDE DEF Replies, Parts
      <4> QED BY <1>1, ConcatProperties, Zenon
    <3> HIDE DEF t
    <3> QED BY <1>1, <3>1
  <2>2. t[Len(s) + 1] = Frame(a)[1] /\ t[Len(s) + 2] = Frame(a)[2]
    <3>1. /\ Len(s) + 1 \in 1..(Len(s) + 2) /\ Len(s) + 2 \in 1..(Len(s) + 2)
          /\ ~(Len(s) + 1 <= Len(s)) /\ ~(Len(s) + 2 <= Len(s))
          /\ (Len(s) + 1) - Len(s) = 1 /\ (Len(s) + 2) - Len(s) = 2
      BY <2>1
    <3> HIDE DEF t
    <3> QED BY <2>1, <3>1
  <2>3. \A i \in 1..Len(s) : i \in 1..Len(t) /\ t[i] = s[i]
    <3> HIDE DEF t
    <3> QED BY <2>1
  <2> QED BY <1>1, <2>1, <2>2, <2>3
<1>3. \A i \in 1..Len(t) : i \in 1..Len(s) \/ i = Len(s) + 1 \/ i = Len(s) + 2
  BY <1>2
<1> HIDE DEF t
<1>4. Once(t)
  <2> SUFFICES ASSUME NEW n1 \in 1..Len(t), NEW n2 \in 1..Len(t),
                      t[n1][1] = t[n2][1], t[n1][2].to = t[n2][2].to
               PROVE  n1 = n2
    BY DEF Once
  <2>1. CASE n1 \in 1..Len(s) /\ n2 \in 1..Len(s)
    BY <1>2, <2>1 DEF Once
  <2>2. CASE n1 \in 1..Len(s) /\ n2 \in {Len(s) + 1, Len(s) + 2}
    BY <1>2, <2>2
  <2>3. CASE n1 \in {Len(s) + 1, Len(s) + 2} /\ n2 \in 1..Len(s)
    BY <1>2, <2>3
  <2>4. CASE n1 \in {Len(s) + 1, Len(s) + 2} /\ n2 \in {Len(s) + 1, Len(s) + 2}
    BY <1>2, <2>4
  <2> QED BY <1>3, <2>1, <2>2, <2>3, <2>4
<1>5. OnWay(t, part) \subseteq OnWay(s, part) \cup {a.to}
  BY <1>2, <1>3 DEF OnWay
<1>6. OnWay(s, part) \subseteq OnWay(t, part)
  BY <1>2 DEF OnWay
<1>7. a.to \in OnWay(t, part)
  <2>1. Len(s) + 1 \in 1..Len(t) /\ Len(s) + 2 \in 1..Len(t)
    BY <1>2
  <2>2. \E n \in 1..Len(t) : t[n][1] = part /\ t[n][2].to = a.to
    BY <1>2, <2>1
  <2> QED BY <2>2 DEF OnWay
<1>8. Once(t) /\ OnWay(t, part) = OnWay(s, part) \cup {a.to}
  BY <1>4, <1>5, <1>6, <1>7
<1> QED BY <1>8 DEF t

LEMMA InitQuiet == Init => Asked /\ Balanced
<1> SUFFICES ASSUME Init PROVE Asked /\ Balanced
  OBVIOUS
<1>1. Asked BY DEF Init, Asked
<1>2. Cached = {} /\ Begun = {} /\ Ended = {}
  BY DEF Init, Cached, Begun, Ended
<1>3. Taken("size") = {} /\ Taken("body") = {}
  BY <1>2 DEF Taken
<1> QED BY <1>1, <1>2, <1>3, FS_EmptySet DEF Init, Balanced, Once

LEMMA AskedKept ==
  ASSUME Inv, Asked, [Next]_vars
  PROVE  Asked'
<1> USE DEF Inv, TypeOK
<1>0. \A n \in 1..Len(requestPipe) : requestPipe[n] \in Parts \X Requests
  OBVIOUS
<1>1. CASE /\ UNCHANGED <<requestPipe, cache>>
           /\ \A q \in Requests : phase'[q] = "new" => phase[q] = "new"
  BY <1>0, <1>1 DEF Asked
<1>2. ASSUME NEW r \in Requests, Write(r)
      PROVE  Asked'
  <2>1. cache' = cache /\ \A q \in Requests : phase'[q] = "new" => phase[q] = "new" /\ q # r
    BY <1>2 DEF Write, WriteSize, WriteBody, Written, Goto, End
  <2>2. CASE UNCHANGED requestPipe BY <1>1, <2>1, <2>2
  <2>3. ASSUME NEW part \in Parts, requestPipe' = Append(requestPipe, <<part, r>>),
               phase[r] = IF part = "size" THEN "new" ELSE "body"
        PROVE  Asked'
    <3>1. <<part, r>> \in Parts \X Requests OBVIOUS
    <3>2. /\ Len(requestPipe') = Len(requestPipe) + 1
          /\ \A i \in 1..Len(requestPipe) : requestPipe'[i] = requestPipe[i]
          /\ requestPipe'[Len(requestPipe) + 1] = <<part, r>>
          /\ Len(requestPipe) \in Nat
      BY <2>3, <3>1, MorePipe
    <3>3. \A i \in 1..Len(requestPipe') : i \in 1..Len(requestPipe) \/ i = Len(requestPipe) + 1
      BY <3>2
    <3>4. cache[r] = "none" BY <2>3 DEF Fresh
    <3>5. \A i \in 1..Len(requestPipe) : requestPipe[i] # <<part, r>>
      <4>1. CASE part = "size" BY <2>3, <4>1 DEF Asked
      <4>2. CASE part = "body" BY <2>3, <4>2 DEF Fresh
      <4> QED BY <4>1, <4>2
    <3>6. \A i \in 1..Len(requestPipe') :
            phase'[requestPipe'[i][2]] # "new" /\ cache'[requestPipe'[i][2]] = "none"
      BY <1>0, <2>1, <3>2, <3>3, <3>4 DEF Asked
    <3>7. \A n1, n2 \in 1..Len(requestPipe') : requestPipe'[n1] = requestPipe'[n2] => n1 = n2
      BY <3>2, <3>3, <3>5 DEF Asked
    <3> QED BY <3>6, <3>7 DEF Asked
  <2> QED BY <1>2, <2>2, <2>3 DEF Write, WriteSize, WriteBody, Written
<1>3. ASSUME NEW r \in Requests, Serve(r), UNCHANGED <<phase, outcome, torn>>
      PROVE  Asked'
  <2>1. /\ Len(requestPipe') = Len(requestPipe) - 2 /\ Len(requestPipe) \in Nat
        /\ \A i \in 1..Len(requestPipe') :
             i + 2 \in 1..Len(requestPipe) /\ requestPipe'[i] = requestPipe[i + 2]
        /\ requestPipe[1] = <<"size", r>> /\ requestPipe[2] = <<"body", r>>
        /\ 1 \in 1..Len(requestPipe) /\ 2 \in 1..Len(requestPipe)
    <3>1. requestPipe' = SubSeq(requestPipe, 2 + 1, Len(requestPipe)) /\ 2 \in 0..Len(requestPipe)
      BY <1>3 DEF Serve
    <3> QED BY <1>3, <3>1, RestOfPipe DEF Serve
  <2>2. \A q \in Requests : q # r => cache'[q] = cache[q]
    BY <1>3, ServeFacts DEF Answer
  <2> HIDE DEF Inv, TypeOK
  <2>3. \A i \in 1..Len(requestPipe') : requestPipe'[i][2] \in Requests \ {r}
    <3> SUFFICES ASSUME NEW i \in 1..Len(requestPipe'), requestPipe'[i][2] = r PROVE FALSE
      BY <1>0, <2>1
    <3>1. i + 2 \in 1..Len(requestPipe) /\ requestPipe[i + 2][2] = r /\ i + 2 # 1 /\ i + 2 # 2
      BY <2>1
    <3>2. requestPipe[i + 2] = <<"size", r>> \/ requestPipe[i + 2] = <<"body", r>>
      <4>1. requestPipe[i + 2] \in Parts \X Requests BY <1>0, <3>1
      <4> HIDE DEF Inv, TypeOK
      <4> QED BY <3>1, <4>1
    <3> QED BY <2>1, <3>1, <3>2 DEF Asked
  <2>4. \A i \in 1..Len(requestPipe') :
          phase'[requestPipe'[i][2]] # "new" /\ cache'[requestPipe'[i][2]] = "none"
    <3>1. ASSUME NEW i \in 1..Len(requestPipe')
          PROVE  phase[requestPipe'[i][2]] # "new" /\ cache[requestPipe'[i][2]] = "none"
      <4>1. i + 2 \in 1..Len(requestPipe) /\ requestPipe'[i] = requestPipe[i + 2]
        BY <2>1, Zenon
      <4> QED BY <4>1, Zenon DEF Asked
    <3> QED BY <1>3, <2>2, <2>3, <3>1
  <2>5. \A n1, n2 \in 1..Len(requestPipe') : requestPipe'[n1] = requestPipe'[n2] => n1 = n2
    <3> SUFFICES ASSUME NEW n1 \in 1..Len(requestPipe'), NEW n2 \in 1..Len(requestPipe'),
                        requestPipe'[n1] = requestPipe'[n2]
                 PROVE  n1 = n2
      OBVIOUS
    <3>1. n1 + 2 \in 1..Len(requestPipe) /\ requestPipe'[n1] = requestPipe[n1 + 2]
      BY <2>1, Zenon
    <3>2. n2 + 2 \in 1..Len(requestPipe) /\ requestPipe'[n2] = requestPipe[n2 + 2]
      BY <2>1, Zenon
    <3>3. n1 + 2 = n2 + 2 BY <3>1, <3>2, Zenon DEF Asked
    <3> QED BY <3>3
  <2> QED BY <2>4, <2>5 DEF Asked
<1>4. ASSUME NEW r \in Requests, Read(r)
      PROVE  Asked'
  <2>1. UNCHANGED <<requestPipe, cache>> BY <1>4 DEF Read
  <2>2. \E p \in {"read", "ended"} : Goto(r, p) BY <1>4, ReadFacts DEF End
  <2> QED BY <1>1, <2>1, <2>2 DEF Goto
<1>5. CASE (Garbled \/ Respond \/ Lost \/ Exit) /\ UNCHANGED <<phase, outcome, torn>>
  BY <1>1, <1>5 DEF Garbled, Respond, Lost, Exit
<1>6. CASE UNCHANGED vars
  BY <1>1, <1>6 DEF vars
<1> QED BY <1>2, <1>3, <1>4, <1>5, <1>6 DEF Next, Sidecar

\* Two sets of one size that each gain an element.
LEMMA OneMore ==
  ASSUME NEW S, NEW T, IsFiniteSet(S), IsFiniteSet(T), Cardinality(S) = Cardinality(T),
         NEW x, NEW y, x \notin S, y \notin T
  PROVE  /\ IsFiniteSet(T \cup {y})
         /\ Cardinality(S \cup {x}) = Cardinality(T \cup {y})
BY FS_AddElement

\* What was taken is no more than what was answered, and is finite like it.
LEMMA TakenFinite ==
  ASSUME Counted, NEW part \in Parts
  PROVE  IsFiniteSet(Taken(part))
<1>1. Taken(part) \subseteq Cached BY DEF Taken
<1> QED BY <1>1, FS_Subset DEF Counted

LEMMA ReadBalanced ==
  ASSUME Inv, Counted, Running, Balanced, NEW r \in Requests, Read(r), Running'
  PROVE  Balanced'
<1>0. /\ UNCHANGED <<sidecar, reply, cache>>
      /\ phase \in [Requests -> {"new", "body", "await", "read", "ended"}]
      /\ responsePipe \in Seq(Parts \X Replies)
      /\ IsFiniteSet(Begun) /\ IsFiniteSet(Ended)
      /\ Cached' = Cached
  <2>1. Ended \subseteq Begun BY DEF Begun, Ended
  <2> QED BY <2>1, FS_Subset DEF Read, Inv, TypeOK, Balanced, Cached
<1>1. /\ ReadSize(r) /\ Head(responsePipe)[1] = "size" /\ Goto(r, "read")
      \/ ReadBody(r)
  BY DEF Read, ReadSize, ReadTorn, ReadEnd, Closed, Running
<1> DEFINE to == Head(responsePipe)[2].to
<1>2. responsePipe # <<>> /\ responsePipe' = Tail(responsePipe)
  BY <1>1 DEF ReadSize, ReadBody
<1>3. /\ Head(responsePipe) = responsePipe[1] /\ 1 \in 1..Len(responsePipe)
      /\ \A i \in 1..Len(Tail(responsePipe)) :
           i + 1 \in 1..Len(responsePipe) /\ Tail(responsePipe)[i] = responsePipe[i + 1]
  BY <1>0, <1>2, TailOfPipe
<1>4. to \in Cached \ {reply.to}
  BY <1>3 DEF Balanced
<1>5. \A n \in 1..Len(responsePipe') : responsePipe'[n][2].to \in Cached' \ {reply'.to}
  <2> SUFFICES ASSUME NEW n \in 1..Len(Tail(responsePipe))
               PROVE  Tail(responsePipe)[n][2].to \in Cached \ {reply.to}
    BY <1>0, <1>2
  <2>1. n + 1 \in 1..Len(responsePipe) /\ Tail(responsePipe)[n] = responsePipe[n + 1]
    BY <1>3, Zenon
  <2> QED BY <2>1, Zenon DEF Balanced
<1>6. ASSUME NEW part \in Parts
      PROVE  /\ Once(responsePipe')
             /\ OnWay(responsePipe', part) =
                  IF Head(responsePipe)[1] = part THEN OnWay(responsePipe, part) \ {to}
                  ELSE OnWay(responsePipe, part)
  BY <1>0, <1>2, TakenPart DEF Balanced
<1>7. ASSUME NEW part \in Parts, Head(responsePipe)[1] # part
      PROVE  Taken(part)' = Taken(part)
  BY <1>0, <1>6, <1>7 DEF Taken
<1>8. ASSUME NEW part \in Parts, Head(responsePipe)[1] = part
      PROVE  Taken(part)' = Taken(part) \cup {to} /\ to \notin Taken(part)
  <2>1. to \in OnWay(responsePipe, part)
    <3>1. to \in Requests BY <1>4 DEF Cached
    <3> QED BY <1>3, <1>8, <3>1 DEF OnWay
  <2>2. Taken(part)' = Cached \ ((OnWay(responsePipe, part) \ {to}) \cup {reply.to})
    BY <1>0, <1>6, <1>8 DEF Taken
  <2> HIDE DEF to
  <2> QED BY <1>4, <2>1, <2>2 DEF Taken
<1>a. CASE ReadSize(r) /\ Head(responsePipe)[1] = "size" /\ Goto(r, "read")
  <2>1. Begun' = Begun \cup {r} /\ r \notin Begun /\ Ended' = Ended
    BY <1>0, <1>a DEF ReadSize, Goto, Begun, Ended
  <2>2. Taken("size")' = Taken("size") \cup {to} /\ to \notin Taken("size")
    BY <1>8, <1>a
  <2>3. Taken("body")' = Taken("body")
    BY <1>7, <1>a
  <2>4. /\ IsFiniteSet(Begun')
        /\ Cardinality(Taken("size")') = Cardinality(Begun')
    <3>1. IsFiniteSet(Taken("size")) BY TakenFinite
    <3> HIDE DEF to
    <3> QED BY <1>0, <2>1, <2>2, <3>1, OneMore DEF Balanced
  <2> QED BY <1>0, <1>5, <1>6, <2>1, <2>3, <2>4 DEF Balanced
<1>b. CASE ReadBody(r)
  <2>0. Head(responsePipe)[1] = "body" /\ phase[r] = "read" /\ Goto(r, "ended")
    BY <1>b DEF ReadBody, End
  <2>1. Begun' = Begun /\ r \notin Ended /\ Ended' = Ended \cup {r}
    BY <1>0, <2>0 DEF Goto, Begun, Ended
  <2>2. Taken("body")' = Taken("body") \cup {to} /\ to \notin Taken("body")
    BY <1>8, <2>0
  <2>3. Taken("size")' = Taken("size")
    BY <1>7, <2>0
  <2>4. Cardinality(Taken("body")') = Cardinality(Ended')
    <3>1. IsFiniteSet(Taken("body")) BY TakenFinite
    <3>2. Cardinality(Taken("body")) = Cardinality(Ended) BY DEF Balanced
    <3> HIDE DEF to
    <3>3. Cardinality(Taken("body") \cup {to}) = Cardinality(Ended \cup {r})
      BY <1>0, <2>1, <2>2, <3>1, <3>2, OneMore
    <3> QED BY <2>1, <2>2, <3>3
  <2> QED BY <1>0, <1>5, <1>6, <2>1, <2>3, <2>4 DEF Balanced
<1> QED BY <1>1, <1>a, <1>b

\* While the sidecar handles a request or writes an answer, nothing is taken.
LEMMA SidecarBalanced ==
  ASSUME Inv, Running, Balanced, Sidecar, Running'
  PROVE  Balanced'
<1>0. /\ UNCHANGED phase /\ Begun' = Begun /\ Ended' = Ended
      /\ NoRequest \notin Cached /\ responsePipe \in Seq(Parts \X Replies) /\ reply \in Replies
  BY KindAssumption DEF Sidecar, Begun, Ended, Cached, Inv, TypeOK
<1>1. ASSUME NEW r \in Requests, Serve(r)
      PROVE  Balanced'
  <2>1. sidecar = "listening" /\ sidecar' = "answering" /\ responsePipe' = responsePipe
    BY <1>1 DEF Serve, Listening
  <2>2. PICK a \in {"ok", "refused", "late"} : Answer(r, a)
    BY <1>1, ServeFacts
  <2>3. /\ reply'.to = r /\ r \notin Cached /\ Cached' = Cached \cup {r}
        /\ reply.to = NoRequest
    <3>1. r \notin Cached BY <1>1, ServeFacts DEF Cached
    <3>2. Cached' = Cached \cup {r} BY <2>2 DEF Answer, Cached, Inv, TypeOK
    <3> QED BY <2>1, <2>2, <3>1, <3>2 DEF Answer, Balanced
  <2>4. ASSUME NEW part \in Parts
        PROVE  Taken(part)' = Taken(part)
    BY <1>0, <2>1, <2>3 DEF Taken
  <2>5. \A n \in 1..Len(responsePipe') : responsePipe'[n][2].to \in Cached' \ {reply'.to}
    BY <2>1, <2>3 DEF Balanced
  <2> QED BY <1>0, <2>1, <2>3, <2>4, <2>5 DEF Balanced
<1>2. CASE Respond
  <2>1. /\ sidecar = "answering" /\ sidecar' = "listening"
        /\ responsePipe' = responsePipe \o Frame(reply) /\ reply'.to = NoRequest
        /\ Cached' = Cached
    BY <1>2 DEF Respond, Running, Cached
  <2>2. /\ reply.to \in Cached /\ reply.to \in Requests
        /\ \A n \in 1..Len(responsePipe) : responsePipe[n][2].to # reply.to
    BY <2>1 DEF Balanced, Cached
  <2>3. ASSUME NEW part \in Parts
        PROVE  /\ Once(responsePipe')
               /\ OnWay(responsePipe', part) = OnWay(responsePipe, part) \cup {reply.to}
    BY <1>0, <2>1, <2>2, FramedParts DEF Balanced
  <2>4. ASSUME NEW part \in Parts
        PROVE  Taken(part)' = Taken(part)
    BY <1>0, <2>1, <2>3 DEF Taken
  <2>5. \A n \in 1..Len(responsePipe') : responsePipe'[n][2].to \in Cached' \ {reply'.to}
    <3>1. \A i \in 1..Len(responsePipe') :
            \/ i \in 1..Len(responsePipe) /\ responsePipe'[i] = responsePipe[i]
            \/ responsePipe'[i][2] = reply
      BY <1>0, <2>1, FramedPipe
    <3>2. \A i \in 1..Len(responsePipe') : responsePipe'[i][2].to \in Cached
      BY <2>2, <3>1 DEF Balanced
    <3> QED BY <1>0, <2>1, <3>2
  <2> QED BY <1>0, <2>1, <2>3, <2>4, <2>5 DEF Balanced
<1> QED BY <1>1, <1>2 DEF Sidecar, Garbled, Lost, Exit, Running

\* An exchange of requests and answers leaves nothing behind: whichever thread
\* took whose answer, when all have ended every answer has been taken, so the
\* next exchange reads its own (_exchange, read_frame).
THEOREM QuietPipes == Spec => []QuietPipesAreEmpty
<1> DEFINE Even == Asked /\ (Running => Balanced)
<1>1. Init => Even
  BY InitQuiet
<1>2. Inv /\ Counted /\ Even /\ [Next]_vars => Even'
  <2> SUFFICES ASSUME Inv, Counted, Even, [Next]_vars, Running'
               PROVE  Balanced'
    BY AskedKept
  <2>1. CASE /\ UNCHANGED <<responsePipe, reply, sidecar, cache, torn>>
             /\ Begun' = Begun /\ Ended' = Ended
    BY <2>1 DEF Balanced, Taken, Cached, Running
  <2>2. ASSUME NEW r \in Requests, Write(r)
        PROVE  Balanced'
    <3>1. UNCHANGED <<responsePipe, reply, sidecar, cache, torn>> /\ sidecar # "exited"
      BY <2>2 DEF Write, Running
    <3>2. phase[r] \in {"new", "body"} /\ \E p \in {"body", "await"} : Goto(r, p)
      BY <2>2, <3>1 DEF Write, WriteSize, WriteBody, Written
    <3>3. Begun' = Begun /\ Ended' = Ended
      BY <3>2 DEF Goto, Begun, Ended, Inv, TypeOK
    <3> QED BY <2>1, <3>1, <3>3
  <2>3. ASSUME NEW r \in Requests, Read(r)
        PROVE  Balanced'
    <3>1. Running BY <2>3 DEF Read, ReadSize, ReadBody, ReadTorn, ReadEnd, Running
    <3> QED BY <2>3, <3>1, ReadBalanced
  <2>4. CASE Sidecar
    <3>1. Running BY <2>4 DEF Sidecar, Serve, Listening, Garbled, Respond, Lost, Exit, Running
    <3> QED BY <2>4, <3>1, SidecarBalanced
  <2>5. CASE UNCHANGED vars
    <3>1. Begun' = Begun /\ Ended' = Ended
      BY <2>5 DEF vars, Begun, Ended
    <3> QED BY <2>1, <2>5, <3>1 DEF vars
  <2> QED BY <2>2, <2>3, <2>4, <2>5 DEF Next
<1>3. Inv /\ Counted /\ Even => QuietPipesAreEmpty
  <2> SUFFICES ASSUME Inv, Counted, Even, \A r \in Requests : phase[r] \in {"new", "ended"},
                      sidecar = "listening", ~torn
               PROVE  requestPipe = <<>> /\ responsePipe = <<>>
    BY DEF QuietPipesAreEmpty
  <2>0. Balanced /\ Asked BY DEF Running
  <2>1. Begun = Ended BY DEF Begun, Ended
  <2>2. Cached \subseteq Ended BY DEF Cached, Ended, Inv, Fresh
  <2>3. ASSUME NEW part \in Parts
        PROVE  Taken(part) = Ended
    <3>1. Taken(part) \subseteq Ended BY <2>2 DEF Taken
    <3>2. Cardinality(Taken(part)) = Cardinality(Ended) /\ IsFiniteSet(Ended)
      BY <2>0, <2>1 DEF Balanced
    <3> QED BY <3>1, <3>2, FS_Subset
  <2>4. Ended \subseteq Cached BY <2>3 DEF Taken
  <2>5. ASSUME NEW n \in 1..Len(responsePipe) PROVE FALSE
    <3>1. responsePipe[n] \in Parts \X Replies BY DEF Inv, TypeOK
    <3>2. responsePipe[n][2].to \in Cached BY <2>0 DEF Balanced
    <3>3. responsePipe[n][2].to \in OnWay(responsePipe, responsePipe[n][1])
      BY <3>2 DEF OnWay, Cached
    <3>4. responsePipe[n][1] \in Parts BY <3>1
    <3> QED BY <2>2, <2>3, <3>2, <3>3, <3>4 DEF Taken
  <2>6. ASSUME NEW n \in 1..Len(requestPipe) PROVE FALSE
    <3>1. requestPipe[n][2] \in Requests BY DEF Inv, TypeOK
    <3>2. /\ phase[requestPipe[n][2]] # "new" /\ cache[requestPipe[n][2]] = "none"
      BY <2>0 DEF Asked
    <3>3. requestPipe[n][2] \in Ended BY <3>1, <3>2 DEF Ended
    <3> QED BY <2>4, <3>2, <3>3 DEF Cached
  <2> QED BY <2>5, <2>6 DEF Inv, TypeOK
<1> HIDE DEF Even
<1> QED BY <1>1, <1>2, <1>3, InvHolds, CountedHolds, PTL DEF Spec
----------------------------------------------------------------------------
(* The link as an atomic service *)

\* The answers in the pipe.
Afloat == {responsePipe[n][2] : n \in 1..Len(responsePipe)}

\* An answer that names a request is the one the cache holds for it, and only
\* an exchange that has ended has an outcome.
Honest ==
  /\ \A a \in Afloat \cup {reply} : a.to \in Requests => cache[a.to] = a.answer
  /\ \A r \in Requests : outcome[r] # "none" => phase[r] = "ended"

\* A read puts no answer into the pipe, and ends on one of those in it.
LEMMA ReadFrom ==
  ASSUME Inv, NEW r \in Requests, Read(r)
  PROVE  /\ Afloat' \subseteq Afloat
         /\ \/ Goto(r, "read") /\ UNCHANGED outcome
            \/ End(r, "failed")
            \/ \E a \in Afloat : End(r, Verified(r, a))
<1>0. responsePipe \in Seq(Parts \X Replies)
  BY DEF Inv, TypeOK
<1>1. CASE ReadSize(r) \/ ReadBody(r)
  <2>1. responsePipe # <<>> /\ responsePipe' = Tail(responsePipe)
    BY <1>1 DEF ReadSize, ReadBody
  <2>2. /\ \A i \in 1..Len(responsePipe') :
             i + 1 \in 1..Len(responsePipe) /\ responsePipe'[i] = responsePipe[i + 1]
        /\ Head(responsePipe) = responsePipe[1] /\ 1 \in 1..Len(responsePipe)
    BY <1>0, <2>1, TailOfPipe
  <2>3. Afloat' \subseteq Afloat
    BY <2>2, Zenon DEF Afloat
  <2>4. Head(responsePipe)[2] \in Afloat
    BY <2>2 DEF Afloat
  <2> QED BY <1>1, <2>3, <2>4 DEF ReadSize, ReadBody
<1>2. CASE ReadTorn(r)
  <2>1. PICK n \in 1..Len(responsePipe) :
          /\ responsePipe' = SubSeq(responsePipe, n + 1, Len(responsePipe))
          /\ \/ Goto(r, "read") /\ UNCHANGED outcome
             \/ End(r, "failed")
             \/ End(r, Verified(r, responsePipe[n][2]))
    BY <1>2 DEF ReadTorn
  <2>2. \A i \in 1..Len(responsePipe') :
          i + n \in 1..Len(responsePipe) /\ responsePipe'[i] = responsePipe[i + n]
    BY <1>0, <2>1, RestOfPipe
  <2>3. Afloat' \subseteq Afloat
    <3>1. \A i \in 1..Len(responsePipe') :
            \E j \in 1..Len(responsePipe) : responsePipe'[i] = responsePipe[j]
      BY <2>2
    <3> QED BY <3>1 DEF Afloat
  <2>4. responsePipe[n][2] \in Afloat
    BY DEF Afloat
  <2> QED BY <2>1, <2>3, <2>4
<1>3. CASE ReadEnd(r)
  BY <1>3 DEF ReadEnd, Afloat
<1> QED BY <1>1, <1>2, <1>3 DEF Read

\* What the sidecar writes is the answer it holds, or an unbound one.
LEMMA Writes ==
  ASSUME Inv, Garbled \/ Respond \/ Lost \/ Exit
  PROVE  /\ Afloat' \subseteq Afloat \cup {reply, Nothing} /\ reply' \in {reply, Nothing}
         /\ UNCHANGED service
<1>0. responsePipe \in Seq(Parts \X Replies) /\ reply \in Replies /\ Nothing \in Replies
  BY DEF Inv, TypeOK
<1>1. UNCHANGED service /\ reply' \in {reply, Nothing}
  BY DEF Garbled, Respond, Lost, Exit
<1>2. CASE responsePipe' = responsePipe
  BY <1>1, <1>2 DEF Afloat
<1>3. ASSUME NEW a \in {reply, Nothing}, responsePipe' = responsePipe \o Frame(a)
      PROVE  Afloat' \subseteq Afloat \cup {reply, Nothing}
  <2>1. \A i \in 1..Len(responsePipe') :
          (i \in 1..Len(responsePipe) /\ responsePipe'[i] = responsePipe[i])
             \/ responsePipe'[i][2] = a
    BY <1>0, <1>3, FramedPipe
  <2> QED BY <2>1, Zenon DEF Afloat
<1>4. CASE responsePipe' = Append(responsePipe, <<"size", reply>>)
  <2>1. <<"size", reply>> \in Parts \X Replies
    BY <1>0
  <2>2. /\ Len(responsePipe') = Len(responsePipe) + 1 /\ Len(responsePipe) \in Nat
        /\ \A i \in 1..Len(responsePipe) : responsePipe'[i] = responsePipe[i]
        /\ responsePipe'[Len(responsePipe) + 1][2] = reply
    BY <1>0, <1>4, <2>1, MorePipe
  <2>3. \A i \in 1..Len(responsePipe') :
          i \in 1..Len(responsePipe) \/ i = Len(responsePipe) + 1
    BY <2>2
  <2>4. \A i \in 1..Len(responsePipe') :
          (i \in 1..Len(responsePipe) /\ responsePipe'[i] = responsePipe[i])
             \/ responsePipe'[i][2] = reply
    BY <2>2, <2>3, Zenon
  <2>5. Afloat' \subseteq Afloat \cup {reply, Nothing}
    BY <2>4, Zenon DEF Afloat
  <2> QED BY <1>1, <2>5
<1> QED BY <1>1, <1>2, <1>3, <1>4 DEF Garbled, Respond, Lost, Exit

LEMMA HonestStep ==
  ASSUME Inv, Honest, [Next]_vars
  PROVE  Honest'
<1>0. /\ phase \in [Requests -> {"new", "body", "await", "read", "ended"}]
      /\ outcome \in [Requests -> {"none", "ok", "refused", "unbound", "collision", "failed"}]
      /\ cache \in [Requests -> {"none", "ok", "refused", "late"}]
  BY DEF Inv, TypeOK
<1>1. CASE UNCHANGED vars
  BY <1>1 DEF vars, Honest, Afloat
<1>2. ASSUME NEW r \in Requests, Write(r) PROVE Honest'
  <2>1. UNCHANGED <<responsePipe, reply, cache>>
    BY <1>2 DEF Write
  <2>2. /\ phase[r] \in {"new", "body"}
        /\ \/ UNCHANGED outcome /\ \E p \in {"body", "await"} : Goto(r, p)
           \/ End(r, "failed")
    BY <1>2 DEF Write, WriteSize, WriteBody, Written
  <2>3. \A q \in Requests : outcome'[q] # "none" => phase'[q] = "ended"
    BY <1>0, <2>2 DEF Honest, Goto, End
  <2> QED BY <2>1, <2>3 DEF Honest, Afloat
<1>3. ASSUME NEW r \in Requests, Read(r) PROVE Honest'
  <2>1. UNCHANGED <<reply, cache>> /\ phase[r] \in {"await", "read"}
    BY <1>3, ReadFacts DEF Read
  <2>2. /\ Afloat' \subseteq Afloat
        /\ \/ Goto(r, "read") /\ UNCHANGED outcome
           \/ \E o : End(r, o)
    BY <1>3, ReadFrom
  <2>3. \A q \in Requests : outcome'[q] # "none" => phase'[q] = "ended"
    BY <1>0, <2>1, <2>2 DEF Honest, Goto, End
  <2> QED BY <2>1, <2>2, <2>3 DEF Honest
<1>4. ASSUME NEW r \in Requests, Serve(r), UNCHANGED <<phase, outcome>> PROVE Honest'
  <2>1. PICK b \in {"ok", "refused", "late"} : Answer(r, b)
    BY <1>4, ServeFacts
  <2>2. /\ cache[r] = "none" /\ Afloat' = Afloat
        /\ reply'.to = r /\ reply'.answer = b
        /\ cache' = [cache EXCEPT ![r] = b]
    BY <1>4, <2>1, ServeFacts DEF Serve, Answer, Afloat
  <2>3. \A a \in Afloat : a.answer \in Answers
    BY DEF Afloat, Inv, TypeOK
  <2>4. \A a \in Afloat : a.to \in Requests => a.to # r /\ cache'[a.to] = a.answer
    BY <1>0, <2>2, <2>3 DEF Honest
  <2>5. reply'.to \in Requests => cache'[reply'.to] = reply'.answer
    BY <1>0, <2>2
  <2> QED BY <1>4, <2>2, <2>4, <2>5 DEF Honest
<1>5. CASE (Garbled \/ Respond \/ Lost \/ Exit) /\ UNCHANGED <<phase, outcome>>
  <2>1. /\ Afloat' \subseteq Afloat \cup {reply, Nothing} /\ reply' \in {reply, Nothing}
        /\ cache' = cache
    BY <1>5, Writes
  <2>2. Nothing.to \notin Requests
    BY KindAssumption
  <2> QED BY <1>5, <2>1, <2>2 DEF Honest
<1> QED BY <1>1, <1>2, <1>3, <1>4, <1>5 DEF Next, Sidecar

\* A caller begins, goes on, or fails while it writes.
LEMMA WriteMaps ==
  ASSUME Inv, Honest, NEW r \in Requests, Write(r)
  PROVE  [Signer!Next]_Signer!vars
<1>0. /\ phase \in [Requests -> {"new", "body", "await", "read", "ended"}]
      /\ outcome \in [Requests -> {"none", "ok", "refused", "unbound", "collision", "failed"}]
      /\ r \in Signer!Requests
  BY DEF Inv, TypeOK, Signer!Requests, Requests
<1>1. Given' = Given /\ UNCHANGED <<killed, executed>>
  BY DEF Write, Given
<1>2. ASSUME End(r, "failed") PROVE Told' = [Told EXCEPT ![r] = "unknown"]
  BY <1>0, <1>2 DEF Told, Learned, End
<1>3. CASE WriteSize(r)
  <2>1. r \notin Asking /\ phase[r] = "new"
    BY <1>3 DEF WriteSize, Asking
  <2>2. \E p \in {"body", "ended"} : Goto(r, p)
    BY <1>3 DEF WriteSize, Written, End
  <2>3. Asking' = Asking \cup {r}
    BY <1>0, <2>2 DEF Asking, Goto
  <2>4. Told' \in {Told, [Told EXCEPT ![r] = "unknown"]}
    BY <1>2, <1>3 DEF WriteSize, Written, Told
  <2>5. Signer!Ask(r)
    BY <1>1, <2>1, <2>3, <2>4 DEF Signer!Ask
  <2> QED BY <1>0, <2>5 DEF Signer!Next
<1>4. CASE WriteBody(r)
  <2>1. phase[r] = "body" /\ r \in Asking
    BY <1>4 DEF WriteBody, Asking
  <2>2. \E p \in {"await", "ended"} : Goto(r, p)
    BY <1>4 DEF WriteBody, Written, End
  <2>3. Asking' = Asking
    BY <1>0, <2>1, <2>2 DEF Asking, Goto
  <2>4. CASE UNCHANGED outcome
    <3>1. Told' = Told BY <2>4 DEF Told
    <3> QED BY <1>1, <2>3, <3>1 DEF Signer!vars
  <2>5. CASE End(r, "failed")
    <3>1. Told[r] = "none"
      BY <1>0, <2>1 DEF Honest, Told, Learned
    <3>2. Signer!Tell(r)
      BY <1>1, <1>2, <2>1, <2>3, <2>5, <3>1 DEF Signer!Tell
    <3> QED BY <1>0, <3>2 DEF Signer!Next
  <2> QED BY <1>4, <2>4, <2>5 DEF WriteBody, Written
<1> QED BY <1>3, <1>4 DEF Write

\* A caller reads on, or has learned the answer to its request or nothing.
LEMMA ReadMaps ==
  ASSUME Inv, Honest, NEW r \in Requests, Read(r)
  PROVE  [Signer!Next]_Signer!vars
<1>0. /\ phase \in [Requests -> {"new", "body", "await", "read", "ended"}]
      /\ outcome \in [Requests -> {"none", "ok", "refused", "unbound", "collision", "failed"}]
      /\ cache \in [Requests -> {"none", "ok", "refused", "late"}]
      /\ r \in Signer!Requests
  BY DEF Inv, TypeOK, Signer!Requests, Requests
<1>1. Given' = Given /\ UNCHANGED <<killed, executed>> /\ phase[r] \in {"await", "read"}
  BY ReadFacts DEF Read, Given
<1>2. PICK p \in {"read", "ended"} : Goto(r, p)
  BY ReadFrom DEF End
<1>3. Asking' = Asking /\ r \in Asking
  BY <1>0, <1>1, <1>2 DEF Asking, Goto
<1>4. CASE UNCHANGED outcome
  <2>1. Told' = Told BY <1>4 DEF Told
  <2> QED BY <1>1, <1>3, <2>1 DEF Signer!vars
<1>5. ASSUME NEW o, Learned(o) \in {Given[r], "unknown"} \ {"none"}, End(r, o)
      PROVE  [Signer!Next]_Signer!vars
  <2>1. Told' = [Told EXCEPT ![r] = Learned(o)]
    BY <1>0, <1>5 DEF Told, End
  <2>2. Told[r] = "none"
    BY <1>0, <1>1 DEF Honest, Told, Learned
  <2>3. Signer!Tell(r)
    BY <1>1, <1>3, <1>5, <2>1, <2>2 DEF Signer!Tell
  <2> QED BY <1>0, <2>3 DEF Signer!Next
<1>6. CASE End(r, "failed")
  BY <1>5, <1>6 DEF Learned
<1>7. ASSUME NEW a \in Afloat, End(r, Verified(r, a))
      PROVE  [Signer!Next]_Signer!vars
  <2>1. a.to \in Requests => cache[a.to] = a.answer
    BY DEF Honest
  <2>2. a.answer \in Answers
    BY DEF Afloat, Inv, TypeOK
  <2>3. Learned(Verified(r, a)) \in {Given[r], "unknown"} \ {"none"}
    BY <1>0, <2>1, <2>2, KindAssumption DEF Verified, Learned, Given
  <2> QED BY <1>5, <1>7, <2>3
<1> QED BY <1>4, <1>6, <1>7, ReadFrom

\* A request is handled.
LEMMA ServeMaps ==
  ASSUME Inv, NEW r \in Requests, Serve(r), UNCHANGED <<phase, outcome>>
  PROVE  Signer!Next
<1>0. /\ phase \in [Requests -> {"new", "body", "await", "read", "ended"}]
      /\ cache \in [Requests -> {"none", "ok", "refused", "late"}]
      /\ r \in Signer!Requests
  BY DEF Inv, TypeOK, Signer!Requests, Requests
<1>1. Asking' = Asking /\ Told' = Told
  BY DEF Asking, Told
<1>2. r \in Asking
  <2>1. 2 \in 1..Len(requestPipe) /\ requestPipe[2] = <<"body", r>>
    BY DEF Serve, Inv, TypeOK
  <2>2. phase[r] \notin {"new", "body"}
    BY <2>1 DEF Inv, Fresh
  <2> QED BY <2>2 DEF Asking
<1>3. Given[r] = "none"
  BY ServeFacts DEF Given
<1>4. ASSUME NEW a \in {"ok", "refused", "late"}, Answer(r, a)
      PROVE  Given' = [Given EXCEPT ![r] = IF a = "late" THEN "refused" ELSE a]
  BY <1>0, <1>4 DEF Given, Answer
<1>5. ASSUME Answer(r, "ok") PROVE Signer!Gives(r, "ok")
  BY <1>1, <1>2, <1>3, <1>4, <1>5 DEF Signer!Gives
<1>6. ASSUME NEW a \in {"refused", "late"}, Answer(r, a) PROVE Signer!Gives(r, "refused")
  BY <1>1, <1>2, <1>3, <1>4, <1>6 DEF Signer!Gives
<1>7. CASE Late(r) \/ Gated(r)
  BY <1>0, <1>6, <1>7 DEF Late, Gated, Signer!Refuse, Signer!Next
<1>8. Settles(r) => Signer!Settles(r)
  BY <1>5, <1>6 DEF Settles, Signer!Settles
<1>9. CASE Engage(r)
  BY <1>0, <1>8, <1>9 DEF Engage, Signer!Engage, Signer!Next
<1>10. CASE Look(r)
  BY <1>0, <1>8, <1>10 DEF Look, Signer!Look, Signer!Next
<1>11. CASE Mutate(r)
  <2>1. Signer!Perform(r)
    BY <1>8, <1>11 DEF Mutate, Admitted, Signer!Perform
  <2> QED BY <1>0, <2>1 DEF Signer!Next
<1> QED BY <1>7, <1>9, <1>10, <1>11 DEF Serve

\* The link implements AtomicSigner, for any number of exchanges that share its
\* pipes (_exchange, _verified_response, run_signer_sidecar, SignerService).
THEOREM LinkIsAtomic == Spec => SignerRefines
<1>1. Init => Signer!Init
  <2> SUFFICES ASSUME Init PROVE Signer!Init
    OBVIOUS
  <2>1. Asking = {} BY DEF Init, Asking
  <2>2. Given = [q \in Signer!Requests |-> "none"]
    BY DEF Init, Given, Requests, Signer!Requests
  <2>3. Told = [q \in Signer!Requests |-> "none"]
    BY DEF Init, Told, Learned, Requests, Signer!Requests
  <2> QED BY <2>1, <2>2, <2>3 DEF Init, Signer!Init
<1>2. Init => Honest
  BY KindAssumption DEF Init, Honest, Afloat
<1>3. Inv /\ Honest /\ [Next]_vars => Honest'
  BY HonestStep
<1>4. Inv /\ Honest /\ [Next]_vars => [Signer!Next]_Signer!vars
  <2> SUFFICES ASSUME Inv, Honest, [Next]_vars PROVE [Signer!Next]_Signer!vars
    OBVIOUS
  <2>1. CASE UNCHANGED vars
    BY <2>1 DEF vars, Signer!vars, Asking, Given, Told
  <2>2. CASE Sidecar
    <3>1. ASSUME NEW r \in Requests, Serve(r) PROVE Signer!Next
      BY <2>2, <3>1, ServeMaps DEF Sidecar
    <3>2. CASE Garbled \/ Respond \/ Lost \/ Exit
      <4>1. UNCHANGED <<phase, outcome, service>>
        BY <2>2, <3>2, Writes DEF Sidecar
      <4> QED BY <4>1 DEF Signer!vars, Asking, Given, Told
    <3> QED BY <2>2, <3>1, <3>2 DEF Sidecar
  <2> QED BY <2>1, <2>2, WriteMaps, ReadMaps DEF Next
<1> QED BY <1>1, <1>2, <1>3, <1>4, InvHolds, PTL DEF Spec, SignerRefines, Signer!Spec
=============================================================================
