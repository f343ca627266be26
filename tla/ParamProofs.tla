----------------------------- MODULE ParamProofs -----------------------------
(***************************************************************************)
(* The two invariants of the parameter table, for every table, every       *)
(* request and any handler that sets parameters itself.                    *)
(***************************************************************************)
EXTENDS Param, SequenceTheorems, WellFoundedInduction, TLAPS

-----------------------------------------------------------------------------
(* The first place where something holds.                                  *)

\* A set of naturals that is not empty has a least member.
LEMMA LeastOf ==
    ASSUME NEW T, T \subseteq Nat, T # {}
    PROVE  Min(T) \in T /\ \A y \in T : Min(T) <= y
  <1> DEFINE R == {p \in Nat \X Nat : p[1] < p[2]}
  <1>1. IsWellFoundedOn(R, Nat)
    BY NatLessThanWellFounded, Zenon DEF OpToRel
  <1>2. \A y, x \in Nat : y < x => <<y, x>> \in R
    OBVIOUS
  <1> HIDE DEF R
  <1>3. PICK x \in T : \A y \in T : ~(<<y, x>> \in R)
    BY <1>1, WFMin, Zenon
  <1>4. ASSUME NEW y \in T PROVE x <= y
    <2>1. x \in Nat /\ y \in Nat
      OBVIOUS
    <2>2. ~(y < x)
      BY <1>2, <1>3, <2>1, Zenon
    <2> QED BY <2>1, <2>2
  <1> QED BY <1>4, Zenon DEF Min

\* A key that is found belongs to an element of the table.
LEMMA FoundHasKey ==
    ASSUME NEW key, findParamIdx(key) # 0
    PROVE  findParamIdx(key) \in Idx /\ Elements[findParamIdx(key)].key = key
  <1> DEFINE I == {i \in 1 .. Len(Elements) : Elements[i].key = key}
  <1>1. findParamIdx(key) = IF I # {} THEN Min(I) ELSE 0
    BY Zenon DEF findParamIdx, SelectInSeq
  <1>2. I # {} /\ I \subseteq Nat
    BY <1>1
  <1>3. Min(I) \in I
    BY <1>2, LeastOf
  <1> QED BY <1>1, <1>2, <1>3 DEF Idx

-----------------------------------------------------------------------------
(* What a buffer of n characters holds after s was stored in it.            *)

Holding(n, s) == [k \in 1 .. n |-> IF k <= Len(s) THEN s[k] ELSE NUL]

LEMMA HoldingIn ==
    ASSUME NEW n \in Nat, NEW s \in Seq(Chars)
    PROVE  Holding(n, s) \in Seq(Chars \cup {NUL}) /\ Len(Holding(n, s)) = n
  <1>1. Holding(n, s) \in [1 .. n -> Chars \cup {NUL}]
    BY DEF Holding
  <1>2. Holding(n, s) \in Seq(Chars \cup {NUL})
    BY <1>1
  <1>3. DOMAIN Holding(n, s) = 1 .. n
    BY DEF Holding
  <1> QED BY <1>2, <1>3, LenProperties

\* strcmp reads what was stored when it is shorter than its buffer, and goes
\* on behind the buffer when it is not.
LEMMA ReadBack ==
    ASSUME NEW n \in Nat, NEW s \in Seq(Chars), Len(s) <= n
    PROVE  /\ Len(s) < n => CStrings(Holding(n, s)) = {s}
           /\ Len(s) = n => CStrings(Holding(n, s)) = {s \o b : b \in SeqOf(Chars, 1)}
  <1> USE ParamAssumption
  <1> DEFINE buf == Holding(n, s)
             N   == {k \in 1 .. Len(buf) : buf[k] = NUL}
             end == IF N # {} THEN Min(N) ELSE 0
  <1>1. Len(buf) = n
    BY HoldingIn
  <1>2. \A k \in 1 .. n : buf[k] = IF k <= Len(s) THEN s[k] ELSE NUL
    BY DEF Holding
  <1>3. \A k \in 1 .. Len(s) : s[k] # NUL
    BY DEF NUL
  <1>4. N = Len(s) + 1 .. n
    BY <1>1, <1>2, <1>3
  <1>5. CStrings(buf) = IF end # 0 THEN {SubSeq(buf, 1, end - 1)}
                        ELSE {buf \o b : b \in SeqOf(Chars, 1)}
    BY Zenon DEF CStrings, SelectInSeq
  <1>6. ASSUME Len(s) < n PROVE CStrings(buf) = {s}
    <2>1. N # {} /\ N \subseteq Nat /\ Len(s) + 1 \in N
      BY <1>4, <1>6
    <2>2. Min(N) \in N /\ Min(N) <= Len(s) + 1
      BY <2>1, LeastOf
    <2>3. end = Len(s) + 1
      BY <1>4, <2>1, <2>2
    <2>4. SubSeq(buf, 1, Len(s)) = s
      <3> DEFINE front == SubSeq(buf, 1, Len(s))
      <3>1. front \in Seq(Chars \cup {NUL}) /\ Len(front) = Len(s)
            /\ \A k \in 1 .. Len(s) : front[k] = buf[k]
        BY <1>1, <1>6, HoldingIn, SubSeqProperties
      <3>2. \A k \in 1 .. Len(s) : front[k] = s[k]
        BY <1>2, <1>6, <3>1
      <3>3. s \in Seq(Chars \cup {NUL})
        OBVIOUS
      <3> HIDE DEF front
      <3> QED BY <3>1, <3>2, <3>3, SeqEqual
    <2>5. end # 0 /\ end - 1 = Len(s)
      BY <2>3
    <2> HIDE DEF end, buf
    <2> QED BY <1>5, <2>4, <2>5, Zenon
  <1>7. ASSUME Len(s) = n PROVE CStrings(buf) = {s \o b : b \in SeqOf(Chars, 1)}
    <2>1. N = {}
      BY <1>4, <1>7
    <2>2. buf = s
      <3>1. buf \in Seq(Chars \cup {NUL}) /\ s \in Seq(Chars \cup {NUL})
        BY HoldingIn
      <3> QED BY <1>1, <1>2, <1>7, <3>1, SeqEqual
    <2>3. end = 0
      BY <2>1
    <2>4. CStrings(buf) = {buf \o b : b \in SeqOf(Chars, 1)}
      <3> HIDE DEF end, buf
      <3> QED BY <1>5, <2>3, Zenon
    <2>5. {buf \o b : b \in SeqOf(Chars, 1)} = {s \o b : b \in SeqOf(Chars, 1)}
      <3> HIDE DEF buf
      <3> QED BY <2>2, Zenon
    <2> QED BY <2>4, <2>5, Zenon
  <1> QED BY <1>6, <1>7, Zenon

-----------------------------------------------------------------------------
(* The inductive invariant.                                                 *)

TableInv ==
    /\ DOMAIN value = Idx /\ DOMAIN text = Idx /\ DOMAIN sent = Idx
    /\ DOMAIN posted = Idx /\ DOMAIN served = Idx /\ DOMAIN due = Idx
    /\ loop \in 0 .. Len(Elements) + 1
    /\ inside => loop \in Idx

\* A buffer holds what was sent last and NUL behind it, whatever was there.
TextInv ==
    \A i \in Typed("string") :
        /\ sent[i] \in Seq(Chars)
        /\ Len(sent[i]) <= Elements[i].valueSize
        /\ text[i] = Holding(Elements[i].valueSize, sent[i])

\* What was due when the round began was set before, and is done for every
\* element the loop has passed.
EventInv ==
    \A i \in Typed("event") :
        /\ {value[i], posted[i], served[i], due[i]} \subseteq Nat
        /\ served[i] + value[i] = posted[i]
        /\ due[i] <= posted[i]
        /\ Elements[i].handled /\ (i < loop \/ last.call = "checkEvents") => due[i] <= served[i]

ParamInv == TableInv /\ TextInv /\ EventInv /\ ComparesAsSent

\* What a request carries, and that the table's fields have their types.
LEMMA TableFields ==
    /\ Len(Elements) \in Nat
    /\ \A i \in Idx : Elements[i].valueSize \in Nat
    /\ \A req \in Requests : req.data \in Seq(Chars)
  <1> USE ParamAssumption
  <1>1. Len(Elements) \in Nat /\ \A i \in Idx : Elements[i].valueSize \in Nat
    <2> DEFINE Element == [key : STRING, valueSize : Nat, handled : BOOLEAN,
                           type : {"unknown", "int32", "float", "string", "event"}]
    <2>1. Elements \in Seq(Element)
      OBVIOUS
    <2>2. \A e \in Element : e.valueSize \in Nat
      OBVIOUS
    <2> HIDE DEF Element
    <2> QED BY <2>1, <2>2, LenProperties DEF Idx
  <1>2. ASSUME NEW req \in Requests PROVE req.data \in Seq(Chars)
    <2>1. req.data \in SeqOf(Chars, MaxText)
      OBVIOUS
    <2>2. PICK m \in 0 .. MaxText : req.data \in [1 .. m -> Chars]
      BY <2>1 DEF SeqOf
    <2> QED BY <2>2
  <1> QED BY <1>1, <1>2

LEMMA ParamStart == Init => ParamInv
  <1> SUFFICES ASSUME Init PROVE ParamInv
    OBVIOUS
  <1>1. TableInv
    <2>1. /\ DOMAIN value = Idx /\ DOMAIN text = Idx /\ DOMAIN sent = Idx
          /\ DOMAIN posted = Idx /\ DOMAIN served = Idx /\ DOMAIN due = Idx
      BY Zenon DEF Init
    <2>2. inside => loop \in Idx
      BY Zenon DEF Init
    <2>3. loop \in 0 .. Len(Elements) + 1
      BY TableFields DEF Init
    <2> QED BY <2>1, <2>2, <2>3, Zenon DEF TableInv
  <1>2. TextInv
    <2> SUFFICES ASSUME NEW i \in Typed("string")
                 PROVE  /\ sent[i] \in Seq(Chars) /\ Len(sent[i]) <= Elements[i].valueSize
                        /\ text[i] = Holding(Elements[i].valueSize, sent[i])
      BY DEF TextInv
    <2>1. i \in Idx /\ Elements[i].valueSize \in Nat
      BY TableFields DEF Typed
    <2>2. sent[i] = <<>> /\ text[i] = [k \in 1 .. Elements[i].valueSize |-> NUL]
      BY <2>1 DEF Init
    <2> QED BY <2>1, <2>2 DEF Holding
  <1>3. EventInv
    BY DEF Init, EventInv, Typed, Idx
  <1>4. ComparesAsSent
    BY DEF Init, ComparesAsSent
  <1> QED BY <1>1, <1>2, <1>3, <1>4 DEF ParamInv

\* A call that stores nothing and counts nothing.
LEMMA RestKeeps ==
    ASSUME ParamInv, UNCHANGED <<text, sent>>, KeepEvents, DOMAIN value' = Idx,
           \A i \in Typed("event") : value'[i] = value[i],
           last'.call # "checkEvents", last'.call = "isEqual" => ComparesAsSent'
    PROVE  ParamInv'
  <1> USE DEF ParamInv, KeepEvents
  <1>1. TableInv'
    BY DEF TableInv
  <1>2. TextInv'
    BY DEF TextInv
  <1>3. EventInv'
    BY DEF EventInv
  <1>4. ComparesAsSent'
    BY DEF ComparesAsSent
  <1> QED BY <1>1, <1>2, <1>3, <1>4

\* param_f_setFromCgiStr: a request that is refused, and the four kinds of
\* element.
LEMMA SetKeeps ==
    ASSUME ParamInv, NEW req \in Requests, setFromCgiStr(req)
    PROVE  ParamInv'
  <1> USE DEF ParamInv, Returns
  <1>1. CASE RefuseCgi(req)
    BY <1>1, RestKeeps DEF RefuseCgi, TableInv
  <1>2. ASSUME ~RefuseCgi(req) PROVE ParamInv'
    <2> DEFINE i == findParamIdx(req.key)
    <2>1. i \in Idx
      BY <1>2, FoundHasKey DEF setFromCgiStr
    <2>2. SetNumber(i, req) \/ SetString(i, req) \/ SetEvent(i) \/ SetUnknown(i)
      BY <1>2 DEF setFromCgiStr
    <2> HIDE DEF i
    <2>3. CASE SetNumber(i, req)
      BY <2>1, <2>3, RestKeeps DEF SetNumber, TableInv, Typed
    <2>4. CASE SetUnknown(i)
      BY <2>4, RestKeeps DEF SetUnknown, TableInv
    <2>5. CASE SetString(i, req)
      <3>1. PICK data : /\ data \in Seq(Chars) /\ Len(data) <= Elements[i].valueSize
                        /\ text' = [text EXCEPT ![i] = Stored(i, data)]
                        /\ sent' = [sent EXCEPT ![i] = data]
        <4>1. CASE Len(req.data) <= Elements[i].valueSize
          BY <2>5, <4>1, TableFields DEF SetString
        <4>2. CASE ~(Len(req.data) <= Elements[i].valueSize)
          <5>1. text' = [text EXCEPT ![i] = Stored(i, <<>>)] /\ sent' = [sent EXCEPT ![i] = <<>>]
            BY <2>5, <4>2, Zenon DEF SetString
          <5>2. <<>> \in Seq(Chars) /\ Len(<<>>) <= Elements[i].valueSize
            BY <2>1, TableFields
          <5> QED BY <5>1, <5>2, Zenon
        <4> QED BY <4>1, <4>2
      <3>2. /\ UNCHANGED <<value, loop, inside, posted, served, due>>
            /\ last'.call = "set" /\ i \in Typed("string")
        BY <2>1, <2>5 DEF SetString, KeepEvents, Typed
      <3>3. Stored(i, data) = Holding(Elements[i].valueSize, data)
        <4>1. DOMAIN text[i] = 1 .. Elements[i].valueSize
          BY <3>2, <2>1, TableFields DEF TextInv, Holding
        <4> QED BY <4>1, <2>1, <3>1, TableFields DEF Stored, Copied, Holding
      <3>4. TableInv'
        BY <3>1, <3>2 DEF TableInv
      <3>5. TextInv'
        BY <2>1, <3>1, <3>2, <3>3 DEF TextInv, TableInv, Typed
      <3>6. EventInv' /\ ComparesAsSent'
        BY <3>2 DEF EventInv, ComparesAsSent
      <3> QED BY <3>4, <3>5, <3>6
    <2>6. CASE SetEvent(i)
      <3>1. /\ UNCHANGED <<text, sent, loop, inside, served, due>>
            /\ value' = [value EXCEPT ![i] = @ + 1] /\ posted' = [posted EXCEPT ![i] = @ + 1]
            /\ last'.call = "set"
        BY <2>6 DEF SetEvent
      <3>2. TableInv' /\ TextInv' /\ ComparesAsSent'
        BY <3>1 DEF TableInv, TextInv, ComparesAsSent
      <3>3. EventInv'
        BY <3>1 DEF EventInv, TableInv, Typed
      <3> QED BY <3>2, <3>3
    <2> QED BY <2>2, <2>3, <2>4, <2>5, <2>6
  <1> QED BY <1>1, <1>2

\* param_f_isEqual reads what was stored, or more when the buffer is full.
LEMMA CompareKeeps ==
    ASSUME ParamInv, NEW i \in Typed("string"), NEW arg \in Texts, isEqual(i, arg)
    PROVE  ParamInv'
  <1> DEFINE stored == sent[i]
             n      == Elements[i].valueSize
  <1>1. PICK str \in CStrings(text[i]) :
            last' = [call |-> "isEqual", el |-> i, arg |-> arg, ret |-> str = arg]
    BY DEF isEqual
  <1>2. UNCHANGED <<value, text, sent>> /\ KeepEvents
    BY DEF isEqual
  <1>3. n \in Nat /\ stored \in Seq(Chars) /\ Len(stored) <= n /\ text[i] = Holding(n, stored)
    BY TableFields DEF ParamInv, TextInv, Typed
  <1>4. Len(stored) < n => str = stored
    BY <1>1, <1>3, ReadBack
  <1>5. str = arg => IsPrefix(stored, arg)
    <2>1. CASE str = stored
      BY <1>3, <2>1 DEF IsPrefix
    <2>2. CASE Len(stored) = n
      <3>0. CStrings(text[i]) = {stored \o b : b \in SeqOf(Chars, 1)}
        BY <1>3, <2>2, ReadBack, Zenon
      <3>1. PICK b \in SeqOf(Chars, 1) : str = stored \o b
        BY <3>0, Zenon
      <3>2. PICK m \in 0 .. 1 : b \in [1 .. m -> Chars]
        BY <3>1 DEF SeqOf
      <3>3. b \in Seq(Chars)
        BY <3>2
      <3>4. /\ str \in Seq(Chars) /\ Len(str) >= Len(stored)
            /\ \A k \in 1 .. Len(stored) : str[k] = stored[k]
        BY <1>3, <3>1, <3>3, ConcatProperties
      <3>5. SubSeq(stored, 1, Len(stored)) = SubSeq(str, 1, Len(stored))
        <4> DEFINE L == Len(stored)
        <4>1. /\ SubSeq(stored, 1, L) \in Seq(Chars) /\ Len(SubSeq(stored, 1, L)) = L
              /\ \A k \in 1 .. L : SubSeq(stored, 1, L)[k] = stored[k]
          BY <1>3, SubSeqProperties
        <4>2. /\ SubSeq(str, 1, L) \in Seq(Chars) /\ Len(SubSeq(str, 1, L)) = L
              /\ \A k \in 1 .. L : SubSeq(str, 1, L)[k] = str[k]
          BY <3>4, <1>3, SubSeqProperties
        <4> QED BY <3>4, <4>1, <4>2, SeqEqual
      <3>6. str = arg => Len(stored) <= Len(arg) /\ SubSeq(stored, 1, Len(stored)) = SubSeq(arg, 1, Len(stored))
        BY <1>3, <3>4, <3>5
      <3> QED BY <3>6, Zenon DEF IsPrefix
    <2> QED BY <1>3, <1>4, <2>1, <2>2
  <1>6. ComparesAsSent'
    <2>1. /\ last'.el = i /\ last'.arg = arg /\ last'.ret = (str = arg)
          /\ sent' = sent /\ last'.call = "isEqual"
      BY <1>1, <1>2
    <2> QED BY <1>4, <1>5, <2>1 DEF ComparesAsSent
  <1> QED
    BY <1>1, <1>2, <1>6, RestKeeps DEF ParamInv, TableInv

\* param_f_checkEvents: the round begins, a handler is called and returns, the
\* loop goes on, the round ends.
LEMMA CheckKeeps == ParamInv /\ checkEvents => ParamInv'
  <1> SUFFICES ASSUME ParamInv, checkEvents PROVE ParamInv'
    OBVIOUS
  <1> USE DEF ParamInv
  <1>0. UNCHANGED <<text, sent>> /\ TextInv'
    BY DEF checkEvents, CheckBegins, HandleEvent, HandlerReturns, NextElement, CheckReturns,
           TextInv
  <1>1. CASE CheckBegins
    BY <1>0, <1>1, TableFields DEF CheckBegins, TableInv, EventInv, ComparesAsSent, Typed, Idx
  <1>2. CASE HandleEvent
    <2>1. TableInv' /\ ComparesAsSent'
      BY <1>2 DEF HandleEvent, TableInv, ComparesAsSent
    <2>2. EventInv'
      BY <1>2 DEF HandleEvent, TableInv, EventInv, ToHandle, Typed
    <2> QED BY <1>0, <2>1, <2>2
  <1>3. CASE HandlerReturns
    BY <1>0, <1>3 DEF HandlerReturns, TableInv, EventInv, ComparesAsSent
  <1>4. CASE NextElement
    <2>1. TableInv' /\ ComparesAsSent'
      BY <1>4, TableFields DEF NextElement, TableInv, ComparesAsSent, Idx
    <2>2. EventInv'
      BY <1>4 DEF NextElement, TableInv, EventInv, ToHandle, Typed, Idx
    <2> QED BY <1>0, <2>1, <2>2
  <1>5. CASE CheckReturns
    <2>1. TableInv' /\ ComparesAsSent'
      BY <1>5, TableFields DEF CheckReturns, TableInv, ComparesAsSent, Idx
    <2>2. EventInv'
      BY <1>5, TableFields DEF CheckReturns, TableInv, EventInv, Typed, Idx
    <2> QED BY <1>0, <2>1, <2>2
  <1> QED BY <1>1, <1>2, <1>3, <1>4, <1>5 DEF checkEvents

LEMMA ParamStep == ParamInv /\ [Next]_vars => ParamInv'
  <1> SUFFICES ASSUME ParamInv, [Next]_vars PROVE ParamInv'
    OBVIOUS
  <1>1. CASE UNCHANGED vars
    BY <1>1 DEF vars, ParamInv, TableInv, TextInv, EventInv, ComparesAsSent
  <1> QED BY <1>1, SetKeeps, CompareKeeps, CheckKeeps DEF Next

LEMMA ParamAlways == Spec => []ParamInv
  BY ParamStart, ParamStep, PTL DEF Spec

-----------------------------------------------------------------------------

\* strncpy without a terminator does no harm to shorter texts: param_f_isEqual
\* tells what was sent last from everything else, for any size of buffer and
\* whatever was stored before, and a full buffer can only be taken for a text
\* that begins with it (param.c:141-152, 220-224).
THEOREM ParamComparesAsSent == Spec => []ComparesAsSent
  <1>1. ParamInv => ComparesAsSent
    BY DEF ParamInv
  <1> QED BY <1>1, ParamAlways, PTL

\* No event is lost and none is handled twice, for any number of elements and
\* handlers that set events while they are handled (param.c:164-167, 190-212).
THEOREM ParamEachEventHandledOnce == Spec => []EachEventHandledOnce
  <1>1. ParamInv => EachEventHandledOnce
    BY DEF ParamInv, EventInv, EachEventHandledOnce
  <1> QED BY <1>1, ParamAlways, PTL
=============================================================================
