------------------------------ MODULE Conversions ------------------------------
(***************************************************************************)
(* Strings, integers and functions on their way between the two languages: *)
(* jsTypeFactory and pyTypeFactory, StrType, IntType and callPyFunc.  A    *)
(* value starts on one side and crosses over any number of times; the      *)
(* JavaScript program may rebuild a string, and call a function.           *)
(*                                                                         *)
(* Widths are parameters.  A code unit of the model below Latin1End fits a *)
(* byte, one below BMP_END fits a code unit, and the surrogates carry Half *)
(* bits each, which is 10 in the code.                                     *)
(***************************************************************************)
EXTENDS Integers, Sequences, SequencesExt, FiniteSets

CONSTANTS Latin1End, HIGH_SURROGATE_START, LOW_SURROGATE_START, BMP_END, Half,
          WordBits,    \* bits of a digit of a BigInt (64)
          SafeBits,    \* bits of a safe integer (53)
          PyVersions,  \* minor versions of Python 3
          MaxLength,   \* bound: length of a string
          MaxInt,      \* bound: size of an integer
          MaxDigits,   \* bound: digits of a BigInt
          MaxArgs      \* bound: parameters and arguments

\* 2^n.
TwoTo(n) == LET doubled[k \in 0..n] == IF k = 0 THEN 1 ELSE 2 * doubled[k - 1]
            IN  doubled[n]

ASSUME ConversionsAssumption ==
    /\ {Latin1End, HIGH_SURROGATE_START, LOW_SURROGATE_START, BMP_END} \subseteq Nat
    /\ {Half, WordBits, SafeBits, MaxLength, MaxInt, MaxDigits, MaxArgs} \subseteq Nat \ {0}
    /\ Latin1End <= HIGH_SURROGATE_START
    /\ LOW_SURROGATE_START = HIGH_SURROGATE_START + TwoTo(Half)
    /\ LOW_SURROGATE_START + TwoTo(Half) <= BMP_END
    /\ PyVersions \subseteq 8..13

VARIABLES version, at, value, origin, called

vars == <<version, at, value, origin, called>>

-----------------------------------------------------------------------------
(* Strings.  In Python: the kind, the characters, and for a JSStringProxy   *)
(* the JS string whose buffer it shows.  In JavaScript: whether units have  *)
(* two bytes, the units, and for an external string the Python str.         *)

LOW_SURROGATE_END == LOW_SURROGATE_START + TwoTo(Half) - 1
IsHigh(c) == c \in HIGH_SURROGATE_START..(LOW_SURROGATE_START - 1)
IsLow(c) == c \in LOW_SURROGATE_START..LOW_SURROGATE_END
Surrogates == HIGH_SURROGATE_START..LOW_SURROGATE_END
IsSurrogate(c) == c \in Surrogates

Own == [type |-> "own"]     \* a string that shows no buffer of the other side
SmallestKind(chars) == IF \E i \in DOMAIN chars : chars[i] >= BMP_END THEN 4
                       ELSE IF \E i \in DOMAIN chars : chars[i] >= Latin1End THEN 2 ELSE 1
PyStr(kind, chars, of) == [type |-> "str", kind |-> kind, chars |-> chars, of |-> of]
NewPyStr(chars) == PyStr(SmallestKind(chars), chars, Own)
JSStr(wide, units, of) == [type |-> "string", wide |-> wide, units |-> units, of |-> of]

HalfOf(x, part) == IF part = "high" THEN (x % TwoTo(2 * Half)) \div TwoTo(Half) ELSE x % TwoTo(Half)

\* Unsigned subtraction: a surrogate wraps round to a pair of others.
UCS4ToUTF16(chars) ==
    FlattenSeq([i \in DOMAIN chars |->
        LET c == chars[i]
        IN  IF c < HIGH_SURROGATE_START \/ (c > LOW_SURROGATE_END /\ c < BMP_END) THEN <<c>>
            ELSE <<HalfOf(c - BMP_END, "high") + HIGH_SURROGATE_START,
                   HalfOf(c - BMP_END, "low") + LOW_SURROGATE_START>>])

JoinSurrogates(h, l) == BMP_END + (h - HIGH_SURROGATE_START) * TwoTo(Half) + (l - LOW_SURROGATE_START)

PairAt(units, i) == i < Len(units) /\ IsHigh(units[i]) /\ IsLow(units[i + 1])
Paired(units, i) == PairAt(units, i) \/ (i > 1 /\ PairAt(units, i - 1))
WellFormed(units) == \A i \in DOMAIN units : IsSurrogate(units[i]) => Paired(units, i)

AsUCS4Unskipped(units) ==                                \* mutant of asUCS4
    [i \in DOMAIN units |-> IF PairAt(units, i) THEN JoinSurrogates(units[i], units[i + 1])
                            ELSE units[i]]
\* Of well-formed units.  A high surrogate waits for its low one.
asUCS4(units) ==
    LET upto[i \in 0..Len(units)] ==
          IF i = 0 THEN <<>>
          ELSE IF PairAt(units, i) THEN upto[i - 1]
          ELSE IF i > 1 /\ PairAt(units, i - 1)
               THEN Append(upto[i - 1], JoinSurrogates(units[i - 1], units[i]))
          ELSE Append(upto[i - 1], units[i])
    IN  upto[Len(units)]

\* A copy, or a proxy that shows the units; Python takes what it shows for
\* characters, of the width the units have.
proxifyString(s) ==
    LET surrogates == \E i \in DOMAIN s.units : IsSurrogate(s.units[i])
    IN  IF s.wide /\ surrogates /\ WellFormed(s.units) THEN NewPyStr(asUCS4(s.units))
        ELSE IF ~surrogates /\ version >= (IF s.wide THEN 13 ELSE 12) THEN NewPyStr(s.units)
        ELSE PyStr(IF s.wide THEN 2 ELSE 1, s.units, s)

StrToJs(p) == IF p.of # Own THEN p.of
              ELSE IF p.kind = 4 THEN JSStr(TRUE, UCS4ToUTF16(p.chars), Own)
              ELSE JSStr(p.kind = 2, p.chars, p)
StrToPy(s) == IF s.of # Own THEN s.of ELSE proxifyString(s)

-----------------------------------------------------------------------------
(* Integers.  A Python int, or pythonmonkey.bigint; a JS Number, or a       *)
(* BigInt of a sign and digits, the least significant first.                *)

Abs(n) == IF n < 0 THEN -n ELSE n
NumBits(n) == CHOOSE b \in 0..Abs(n) : Abs(n) < TwoTo(b) /\ (b > 0 => Abs(n) >= TwoTo(b - 1))
Digits(n, count) == [i \in 1..count |-> (n \div TwoTo(WordBits * (i - 1))) % TwoTo(WordBits)]
FromDigits(digits) ==
    LET upto[k \in 0..Len(digits)] ==
          IF k = 0 THEN 0 ELSE upto[k - 1] + digits[k] * TwoTo(WordBits * (k - 1))
    IN  upto[Len(digits)]
\* What SpiderMonkey keeps of digits it is given.
Trimmed(digits) == CHOOSE t \in {SubSeq(digits, 1, k) : k \in 0..Len(digits)} :
                     /\ t = <<>> \/ Last(t) # 0
                     /\ FromDigits(t) = FromDigits(digits)
BigInt(negative, digits) == [type |-> "bigint", negative |-> negative, digits |-> digits]

TruncatedDigitCount(n) == IF NumBits(n) = 0 THEN 1 ELSE NumBits(n) \div WordBits   \* mutant of the next
jsDigitCount(n) == IF NumBits(n) = 0 THEN 1 ELSE (NumBits(n) - 1) \div WordBits + 1

\* One digit is taken as it is, more are spelt out.
toJsBigInt(n) == BigInt(n < 0, Trimmed(Digits(Abs(n), jsDigitCount(n))))

IntToJs(p) == IF p.big THEN toJsBigInt(p.n)
              ELSE IF NumBits(p.n) <= SafeBits THEN [type |-> "number", n |-> p.n]
              ELSE [type |-> "OverflowError", n |-> p.n]
BigIntToPy(b) == [type |-> "int", big |-> TRUE,
                  n |-> IF b.negative THEN -FromDigits(b.digits) ELSE FromDigits(b.digits)]

-----------------------------------------------------------------------------
(* Functions.  `argcount` counts the self of a method; the last `defaults`  *)
(* of the parameters have a default; `var` is *args.                        *)

Natives == {"METH_NOARGS", "METH_O", "METH_VARARGS"}
\* A function without parameters cannot be bound as a method.
Signatures ==
    {[kind |-> k, argcount |-> 0, defaults |-> 0, var |-> FALSE] : k \in Natives}
    \cup {s \in [kind : {"function", "method"}, argcount : 0..MaxArgs, defaults : 0..MaxArgs,
                 var : BOOLEAN] :
            /\ s.defaults <= s.argcount
            /\ s.kind = "method" => s.argcount > 0 \/ s.var}

NormalArgsWithSelf(s) == IF s.kind = "METH_O" THEN 1 ELSE s.argcount - s.defaults  \* mutant of the next
nNormalArgs(s) == CASE s.kind = "METH_O" -> 1
                    [] s.kind \in {"METH_NOARGS", "METH_VARARGS"} -> 0
                    [] s.kind = "function" -> s.argcount - s.defaults
                    [] s.kind = "method" -> s.argcount - s.defaults - 1

Larger(m, n) == IF m > n THEN m ELSE n
Smaller(m, n) == IF m < n THEN m ELSE n

argTupleLength(s, argc) ==
    CASE s.kind = "METH_VARARGS" -> argc
      [] s.var -> Larger(argc, nNormalArgs(s))
      [] OTHER -> IF nNormalArgs(s) > argc THEN nNormalArgs(s)
                  ELSE Smaller(argc, nNormalArgs(s) + s.defaults)

\* Values of parameters: the arguments by their number, and
PyNone == 0
Default == -1
Self == -2
TypeError == [params |-> <<>>, rest |-> <<TRUE>>]

callPyFunc(s, argc) ==
    IF nNormalArgs(s) + s.defaults <= 0 /\ ~s.var /\ s.kind # "METH_VARARGS" THEN <<>>
    ELSE [i \in 1..argTupleLength(s, argc) |-> IF i <= argc THEN i ELSE PyNone]

\* What Python makes of the tuple: the parameters, and *args.
PyObject_Call(s, tuple) ==
    LET given == IF s.kind = "method" THEN <<Self>> \o tuple ELSE tuple
        count == IF s.kind = "METH_O" THEN 1 ELSE s.argcount
        var   == s.var \/ s.kind = "METH_VARARGS"
    IN  IF Len(given) < count - s.defaults \/ (Len(given) > count /\ ~var) THEN TypeError
        ELSE [params |-> [i \in 1..count |-> IF i <= Len(given) THEN given[i] ELSE Default],
              rest |-> SubSeq(given, count + 1, Len(given))]

-----------------------------------------------------------------------------
NotCalled == [argc |-> -1, got |-> TypeError]

Characters == 0..(BMP_END + TwoTo(2 * Half) - 1)
JSStrings == {JSStr(w, u, Own) : w \in BOOLEAN, u \in BoundedSeq(0..(BMP_END - 1), MaxLength)}
JSValues == {s \in JSStrings : s.wide \/ SmallestKind(s.units) = 1}
            \cup {b \in {BigInt(s, d) : s \in BOOLEAN, d \in BoundedSeq(0..(TwoTo(WordBits) - 1), MaxDigits)} :
                     IF b.digits = <<>> THEN ~b.negative ELSE Last(b.digits) # 0}
PyValues == {NewPyStr(c) : c \in BoundedSeq(Characters, MaxLength)}
            \cup [type : {"int"}, big : BOOLEAN, n : -MaxInt..MaxInt]
            \cup [type : {"callable"}, sig : Signatures]

Init == /\ version \in PyVersions
        /\ \/ at = "python" /\ value \in PyValues
           \/ at = "javascript" /\ value \in JSValues
        /\ origin = value
        /\ called = NotCalled

jsTypeFactory ==
    /\ at = "python"
    /\ at' = "javascript"
    /\ value' = CASE value.type = "str" -> StrToJs(value)
                  [] value.type = "int" -> IntToJs(value)
                  [] value.type = "float" -> [type |-> "number", n |-> value.n]
                  [] value.type = "callable" -> [type |-> "function", sig |-> value.sig]
    /\ UNCHANGED <<version, origin, called>>

pyTypeFactory ==
    /\ at = "javascript" /\ value.type # "OverflowError"
    /\ at' = "python"
    /\ value' = CASE value.type = "string" -> StrToPy(value)
                  [] value.type = "bigint" -> BigIntToPy(value)
                  [] value.type = "number" -> [type |-> "float", n |-> value.n]
                  [] value.type = "function" -> [type |-> "callable", sig |-> value.sig]
    /\ called' = NotCalled
    /\ UNCHANGED <<version, origin>>

\* The program makes an equal string of its own.
Rebuild == /\ at = "javascript" /\ value.type = "string"
           /\ \E w \in BOOLEAN : /\ w \/ SmallestKind(value.units) = 1
                                 /\ value' = JSStr(w, value.units, Own)
           /\ UNCHANGED <<version, at, origin, called>>

Call(argc) == /\ at = "javascript" /\ value.type = "function" /\ called = NotCalled
              /\ called' = [argc |-> argc,
                            got |-> PyObject_Call(value.sig, callPyFunc(value.sig, argc))]
              /\ UNCHANGED <<version, at, value, origin>>

Next == \/ jsTypeFactory
        \/ pyTypeFactory
        \/ Rebuild
        \/ \E argc \in 0..(MaxArgs + 1) : Call(argc)

Spec == Init /\ [][Next]_vars

-----------------------------------------------------------------------------
(* Properties. *)

\* The text of a string, as UTF-16.
Encoded(c) == IF c < BMP_END THEN <<c>>
              ELSE CHOOSE u \in Surrogates \X Surrogates :
                     PairAt(u, 1) /\ JoinSurrogates(u[1], u[2]) = c
Text(v) == IF v.type = "string" THEN v.units
           ELSE FlattenSeq([i \in DOMAIN v.chars |-> Encoded(v.chars[i])])

\* Known: in a Python string with characters beyond the BMP, a lone surrogate
\* becomes a pair of surrogates.
Mangled == /\ origin.type = "str" /\ origin.kind = 4
           /\ \E i \in DOMAIN origin.chars : IsSurrogate(origin.chars[i])

\* Known: before Python 3.13 a string of two-byte units that would fit one byte
\* is shown to Python as it is, and is not equal to the same text of one byte.
Uneven == version < 13 /\ value.kind = 2 /\ SmallestKind(value.chars) = 1

\* A string keeps its text, however often it crosses and is rebuilt; a Python
\* string has the smallest kind, and no surrogate pairs unless the text is ill-formed
\* or has always been such.
StringsKeepTheirText ==
    value.type \in {"str", "string"} /\ ~Mangled =>
        /\ Text(value) = Text(origin)
        /\ value.type = "str" =>
             /\ value.kind = SmallestKind(value.chars) \/ Uneven
             /\ (\E i \in DOMAIN value.chars : IsSurrogate(value.chars[i])) =>
                  ~WellFormed(Text(value)) \/ value = origin

\* An integer keeps its value, or is refused, if and only if it is not safe and no
\* bigint; a BigInt has no leading zeros, and there is no negative zero.
Number(v) == IF v.type = "bigint" THEN BigIntToPy(v).n ELSE v.n
IsNumber(v) == v.type \in {"int", "float", "number", "bigint", "OverflowError"}
IntegersKeepTheirValue ==
    IsNumber(value) =>
        /\ Number(value) = Number(origin)
        /\ value.type = "OverflowError"
             => origin.type = "int" /\ ~origin.big /\ Abs(origin.n) >= TwoTo(SafeBits)
        /\ value.type \in {"number", "float"} => Abs(value.n) < TwoTo(SafeBits)
        /\ value.type = "bigint" => /\ value.digits # <<>> => Last(value.digits) # 0
                                    /\ value.negative => value.digits # <<>>

\* A Python function called from JavaScript gets what a JavaScript function would:
\* each parameter its argument, or its default, or None; *args the rest; and what it
\* cannot take is dropped.  It is never called with too few or too many.
ArgumentsMeetJavaScript ==
    called # NotCalled =>
        LET s     == value.sig
            given == (IF s.kind = "method" THEN <<Self>> ELSE <<>>)
                       \o [i \in 1..called.argc |-> i]
            count == IF s.kind = "METH_O" THEN 1 ELSE s.argcount
        IN  called.got =
              [params |-> [i \in 1..count |-> IF i <= Len(given) THEN given[i]
                             ELSE IF i > count - s.defaults THEN Default ELSE PyNone],
               rest |-> IF s.var \/ s.kind = "METH_VARARGS"
                        THEN SubSeq(given, count + 1, Len(given)) ELSE <<>>]
==============================================================================
