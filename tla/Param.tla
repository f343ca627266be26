------------------------------- MODULE Param -------------------------------
(***************************************************************************)
(* The parameter table: keyed elements that a CGI string sets, events that *)
(* are counted when they are set and handed to their handler later, and    *)
(* strings in buffers of their own.  The table is linked into the firmware *)
(* and nothing calls it yet: the calls here are all its interface allows.  *)
(*                                                                         *)
(* A character is its code; NUL ends a C string.  A handler belongs to the *)
(* application: param_f_checkEvents calls it, and it may set parameters    *)
(* itself before it returns.                                               *)
(***************************************************************************)
EXTENDS Integers, SequencesExt

CONSTANTS
    Elements,   \* the table: a sequence of [key, type, valueSize, handled]
    Requests,   \* what may be sent: [key, equals, data, more], "key=data", "&..." behind it
    Chars,      \* the characters a value may have
    MaxText,    \* bound on the length of a value
    MaxEvents   \* bound on how often an event is set

NUL   == 0
Digit == 48 .. 57

ASSUME ParamAssumption ==
    /\ Chars \subseteq 1 .. 255
    /\ MaxText \in Nat /\ MaxEvents \in Nat
    /\ Elements \in Seq([key : STRING, valueSize : Nat, handled : BOOLEAN,
                         type : {"unknown", "int32", "float", "string", "event"}])
    /\ Requests \subseteq [key : STRING, equals : BOOLEAN,
                           data : SeqOf(Chars, MaxText), more : BOOLEAN]

VARIABLES
    value,   \* by element: a number, or how often an event is still to be handled
    text,    \* by element: the buffer at valuePtr
    loop,    \* param_f_checkEvents: its element, 0 when it is not running
    inside,  \* whether the handler of that element is running
    last,    \* history: the last call, and what it returned
    sent,    \* history, by element: the text that was accepted last
    posted, served, \* history, by element: how often an event was set, was handled
    due      \* history: posted when param_f_checkEvents was called

vars == <<value, text, loop, inside, last, sent, posted, served, due>>

PARAM_OK            == 1
PARAM_ERR_NOT_FOUND == -1
PARAM_ERR_TYPE      == -2
PARAM_ERR_VALUE     == -3
PARAM_ERR_CGI       == -4
PARAM_ERR_SCAN      == -5

Idx      == 1 .. Len(Elements)
Typed(t) == {i \in Idx : Elements[i].type = t}
Texts    == SeqOf(Chars, MaxText)

\* The first element with exactly this key, 0 for none.
findParamIdx(key) ==
    SelectInSeq(Elements, LAMBDA e : e.key = key)

\* sscanf with %ld or %f, on numbers without sign: the digits at the front.
\* At the end of the string it answers EOF, which is not zero: the call
\* counts as a success and the number is what it was initialised with.
Digits(data) ==
    SubSeq(data, 1, SelectInSeq(data \o <<NUL>>, LAMBDA ch : ch \notin Digit) - 1)
Scans(req)   == Digits(req.data) # <<>> \/ (req.data = <<>> /\ ~req.more)
Number(data) == FoldLeft(LAMBDA n, ch : 10 * n + ch - 48, 0, Digits(data))

\* strncpy(buf, data, n), into a buffer that held old.
Copied(old, data, n) ==
    [k \in DOMAIN old |->
        IF k > n THEN old[k] ELSE IF k <= Len(data) THEN data[k] ELSE NUL]

\* Fault: the buffer is not cleared first.
StoredOver(i, data) == Copied(text[i], data, Len(data))

\* memset, then strncpy of as many characters as were sent: with all of the
\* buffer used there is no terminator.
Stored(i, data) == Copied([k \in DOMAIN text[i] |-> NUL], data, Len(data))

\* What strcmp can read from a buffer: without a terminator it goes on into
\* the memory behind.
CStrings(buf) ==
    LET end == SelectInSeq(buf, LAMBDA ch : ch = NUL)
    IN  IF end # 0 THEN {SubSeq(buf, 1, end - 1)}
                   ELSE {buf \o behind : behind \in SeqOf(Chars, 1)}

-----------------------------------------------------------------------------

Init ==
    /\ value = [i \in Idx |-> 0]
    /\ text = [i \in Idx |-> [k \in 1 .. Elements[i].valueSize |-> NUL]]
    /\ loop = 0 /\ inside = FALSE
    /\ last = [call |-> "none"]
    /\ sent = [i \in Idx |-> <<>>]
    /\ posted = [i \in Idx |-> 0] /\ served = [i \in Idx |-> 0]
    /\ due = [i \in Idx |-> 0]

Returns(call, ret) == last' = [call |-> call, ret |-> ret]

KeepEvents == UNCHANGED <<loop, inside, posted, served, due>>

\* The application or a handler calls param_f_setFromCgiStr.
MayCall == loop = 0 \/ inside

RefuseCgi(req) ==
    /\ ~req.equals \/ findParamIdx(req.key) = 0
    /\ Returns("set", IF req.equals THEN PARAM_ERR_NOT_FOUND ELSE PARAM_ERR_CGI)
    /\ UNCHANGED <<value, text, sent>> /\ KeepEvents

SetNumber(i, req) ==
    /\ Elements[i].type \in {"int32", "float"}
    /\ value' = IF Scans(req) THEN [value EXCEPT ![i] = Number(req.data)] ELSE value
    /\ Returns("set", IF Scans(req) THEN PARAM_OK ELSE PARAM_ERR_SCAN)
    /\ UNCHANGED <<text, sent>> /\ KeepEvents

\* A text that is too long is refused when the old one is already cleared.
SetString(i, req) ==
    LET fits == Len(req.data) <= Elements[i].valueSize
        data == IF fits THEN req.data ELSE <<>>
    IN  /\ Elements[i].type = "string"
        /\ text' = [text EXCEPT ![i] = Stored(i, data)]
        /\ sent' = [sent EXCEPT ![i] = data]
        /\ Returns("set", IF fits THEN PARAM_OK ELSE PARAM_ERR_VALUE)
        /\ UNCHANGED value /\ KeepEvents

SetEvent(i) ==
    /\ Elements[i].type = "event"
    /\ posted[i] < MaxEvents
    /\ value' = [value EXCEPT ![i] = @ + 1]
    /\ posted' = [posted EXCEPT ![i] = @ + 1]
    /\ Returns("set", PARAM_OK)
    /\ UNCHANGED <<text, sent, loop, inside, served, due>>

SetUnknown(i) ==
    /\ Elements[i].type = "unknown"
    /\ Returns("set", PARAM_ERR_TYPE)
    /\ UNCHANGED <<value, text, sent>> /\ KeepEvents

\* param_f_setFromCgiStr.
setFromCgiStr(req) ==
    /\ MayCall
    /\ \/ RefuseCgi(req)
       \/ req.equals /\ LET i == findParamIdx(req.key)
                        IN  i # 0 /\ ( \/ SetNumber(i, req) \/ SetString(i, req)
                                       \/ SetEvent(i)       \/ SetUnknown(i) )

\* param_f_isEqual, of a string; of any other type it answers RESET.
isEqual(i, arg) ==
    /\ MayCall
    /\ \E str \in CStrings(text[i]) :
           last' = [call |-> "isEqual", el |-> i, arg |-> arg, ret |-> str = arg]
    /\ UNCHANGED <<value, text, sent>> /\ KeepEvents

-----------------------------------------------------------------------------
(* param_f_checkEvents. *)

CheckBegins ==
    /\ loop = 0
    /\ loop' = 1 /\ due' = posted
    /\ last' = [call |-> "none"]
    /\ UNCHANGED <<value, text, inside, sent, posted, served>>

ToHandle(i) == Elements[i].type = "event" /\ Elements[i].handled /\ value[i] # 0

\* Fault: one call of the handler stands for all.
HandleEventOnce ==
    /\ loop \in Idx /\ ~inside /\ ToHandle(loop)
    /\ value' = [value EXCEPT ![loop] = 0]
    /\ served' = [served EXCEPT ![loop] = @ + 1]
    /\ inside' = TRUE
    /\ UNCHANGED <<text, loop, last, sent, posted, due>>

\* The count goes down before the handler is called.
HandleEvent ==
    /\ loop \in Idx /\ ~inside /\ ToHandle(loop)
    /\ value' = [value EXCEPT ![loop] = @ - 1]
    /\ served' = [served EXCEPT ![loop] = @ + 1]
    /\ inside' = TRUE
    /\ UNCHANGED <<text, loop, last, sent, posted, due>>

HandlerReturns ==
    /\ inside /\ inside' = FALSE
    /\ UNCHANGED <<value, text, loop, last, sent, posted, served, due>>

NextElement ==
    /\ loop \in Idx /\ ~inside /\ ~ToHandle(loop)
    /\ loop' = loop + 1
    /\ UNCHANGED <<value, text, inside, last, sent, posted, served, due>>

CheckReturns ==
    /\ loop = Len(Elements) + 1
    /\ loop' = 0
    /\ last' = [call |-> "checkEvents"]
    /\ UNCHANGED <<value, text, inside, sent, posted, served, due>>

checkEvents == CheckBegins \/ HandleEvent \/ HandlerReturns \/ NextElement \/ CheckReturns

Next ==
    \/ \E req \in Requests : setFromCgiStr(req)
    \/ \E i \in Typed("string"), arg \in Texts : isEqual(i, arg)
    \/ checkEvents

Spec == Init /\ [][Next]_vars

-----------------------------------------------------------------------------

\* A text that is shorter than its buffer compares equal to itself and to
\* nothing else, whatever was stored there before; one that fills its buffer
\* compares equal at most to a text it begins (param.c:141-152, 220-224).
ComparesAsSent ==
    last.call = "isEqual" =>
        LET stored == sent[last.el]
        IN  /\ Len(stored) < Elements[last.el].valueSize =>
                   (last.ret <=> last.arg = stored)
            /\ last.ret => IsPrefix(stored, last.arg)

\* An event is handled once for every time it was set, also when a handler
\* sets events while others are handled; when param_f_checkEvents returns,
\* all that were set before it was called are done (param.c:164-167, 190-212).
EachEventHandledOnce ==
    /\ \A i \in Typed("event") : served[i] + value[i] = posted[i]
    /\ last.call = "checkEvents" =>
           \A i \in Typed("event") : Elements[i].handled => due[i] <= served[i]
=============================================================================
