------------------------------- MODULE Printk -------------------------------
(***************************************************************************)
(* printk, core/src/printk.c, with the assert macros of core/inc/assert.h. *)
(*                                                                         *)
(* A format is a sequence of characters; where only the order of the       *)
(* messages matters a text stands for its characters.  A string argument   *)
(* is such a sequence too, or NullString.  Types are given by how many     *)
(* values they have.  Nothing runs between the steps of a printk that      *)
(* changes what it does, so a step is one turn of its loop.                *)
(***************************************************************************)
EXTENDS Integers, Sequences, SequencesExt

CONSTANTS
  SHORT, INT, LONG, LLONG,   \* how many values the integer types have
  CharSet                    \* the characters, by their code

NullString == <<"NULL pointer">>
NUL == "NUL"
Line == 305   \* of print_str's assert

ASSUME PrintkAssumption ==
  /\ {SHORT, INT, LONG, LLONG} \subseteq Nat \ {0} /\ INT > Line
  /\ \A w \in {SHORT, INT, LONG} : w % 2 = 0 /\ w <= LLONG
  /\ LLONG % 2 = 0
  /\ CharSet \in Seq(STRING) /\ CharSet # <<>> /\ NUL \notin Range(CharSet)

VARIABLES
  calls,     \* the active calls of printk, the innermost last
  shown,     \* history variable: what VGA_display_char and _str were given
  sent,      \* history variable: what SER_write was given
  asked,     \* history variable: what printk was called for, as pieces
  failing,   \* an assert prints its message
  halted     \* an assert has executed HLT

printk == <<calls, shown, sent, asked, failing, halted>>

PrintkInit ==
  /\ calls = <<>> /\ shown = <<>> /\ sent = <<>> /\ asked = <<>>
  /\ failing = FALSE /\ halted = FALSE

\* A call is given by its pieces: a character that stands for itself, or a
\* conversion and its argument.
Plain(c) == [conv |-> <<>>, arg |-> c]
Piece(conv, arg) == [conv |-> conv, arg |-> arg]
Format(pieces) ==
  FlattenSeq([n \in DOMAIN pieces |->
    IF pieces[n].conv = <<>> THEN <<pieces[n].arg>> ELSE <<"%">> \o pieces[n].conv])
Arguments(pieces) ==
  FlattenSeq([n \in DOMAIN pieces |->
    IF pieces[n].conv \in {<<>>, <<"%">>} THEN <<>> ELSE <<pieces[n].arg>>])

\* fmt is NULL: assert_noprint halts as it does on a conversion there is not,
\* before anything is printed.
NullFormat == <<Piece(<<"NULL">>, 0)>>

-----------------------------------------------------------------------------
(* Conversions.                                                            *)

LOWERCASE == <<"0","1","2","3","4","5","6","7","8","9","a","b","c","d","e","f">>
UPPERCASE == <<"0","1","2","3","4","5","6","7","8","9","A","B","C","D","E","F">>
int_to_char(val, cs) == cs[val + 1]

\* Mutant: zero has no digits.
varbase_empty(val, base, cs) ==
  LET tmp_buff[v \in Nat] ==
        IF v = 0 THEN <<>> ELSE <<int_to_char(v % base, cs)>> \o tmp_buff[v \div base]
  IN Reverse(tmp_buff[val])

\* print_unsigned_long_long_varbase: the digits go to tmp_buff lowest first.
varbase(val, base, cs) ==
  LET tmp_buff[v \in Nat] ==
        IF v = 0 THEN <<>> ELSE <<int_to_char(v % base, cs)>> \o tmp_buff[v \div base]
  IN IF val = 0 THEN <<"0">> ELSE Reverse(tmp_buff[val])

\* An argument converted to a signed type.
Signed(v, w) == IF v % w < w \div 2 THEN v % w ELSE (v % w) - w

\* val * -1: of the least long long is itself, in the build.
print_long_long(val) ==
  IF val < 0 THEN <<"-">> \o varbase((-val) % LLONG, 10, LOWERCASE)
    ELSE varbase(val, 10, LOWERCASE)

Width(conv) ==
  CASE Len(conv) = 1 -> INT
    [] conv[1] = "h" -> SHORT
    [] conv[1] = "l" -> LONG
    [] OTHER -> LLONG

Number(conv, arg) ==
  CASE Last(conv) = "d" -> print_long_long(Signed(arg, Width(conv)))
    [] Last(conv) = "u" -> varbase(arg % Width(conv), 10, LOWERCASE)
    [] Last(conv) = "x" -> varbase(arg % Width(conv), 16, LOWERCASE)

Numbers == {<<"d">>, <<"u">>, <<"x">>} \cup
           {<<l, k>> : l \in {"h", "l", "q"}, k \in {"d", "u", "x"}}
Conversions == Numbers \cup {<<"%">>, <<"c">>, <<"s">>, <<"p">>}

\* What follows a '%': one character, or two if the first is a length.
Conversion(fmt) ==
  LET wanted == IF Len(fmt) > 1 /\ fmt[2] \in {"h", "l", "q"} THEN 3 ELSE 2
  IN SubSeq(fmt, 2, IF Len(fmt) < wanted THEN Len(fmt) ELSE wanted)

-----------------------------------------------------------------------------
(* The loop.                                                               *)

\* The entry of printk.
Enter(fmt, args) == calls' = Append(calls, [fmt |-> fmt, args |-> args])

Printk(pieces) ==
  /\ Enter(Format(pieces), Arguments(pieces))
  /\ asked' = asked \o pieces
  /\ UNCHANGED <<shown, sent, failing, halted>>

fmt_ == Last(calls).fmt
args_ == Last(calls).args

\* fmt moves on by n characters and takes k arguments.
Advance(n, k) ==
  calls' = Append(Front(calls), [fmt |-> SubSeq(fmt_, n + 1, Len(fmt_)),
                                 args |-> SubSeq(args_, k + 1, Len(args_))])

\* display_char for each character of a text.
display_chars(text) == shown' = shown \o text /\ sent' = sent \o text

\* To the screen up to the terminator, to the serial port with it.
display_str(s) == shown' = shown \o s /\ sent' = sent \o s \o <<NUL>>

Active == calls # <<>> /\ ~halted

Literal ==
  /\ Active /\ fmt_ # <<>> /\ fmt_[1] # "%"
  /\ display_chars(<<fmt_[1]>>)
  /\ Advance(1, 0)
  /\ UNCHANGED <<asked, failing, halted>>

Converting(S) == Active /\ fmt_ # <<>> /\ fmt_[1] = "%" /\ Conversion(fmt_) \in S
AfterConversion == Advance(1 + Len(Conversion(fmt_)), 1)

Percent ==
  /\ Converting({<<"%">>})
  /\ display_chars(<<"%">>)
  /\ Advance(2, 0)
  /\ UNCHANGED <<asked, failing, halted>>

\* The argument of %c is an int, cut to a char.
print_char ==
  /\ Converting({<<"c">>})
  /\ display_chars(<<CharSet[(args_[1] % Len(CharSet)) + 1]>>)
  /\ AfterConversion
  /\ UNCHANGED <<asked, failing, halted>>

print_number ==
  /\ Converting(Numbers)
  /\ display_chars(Number(Conversion(fmt_), args_[1]))
  /\ AfterConversion
  /\ UNCHANGED <<asked, failing, halted>>

print_ptr ==
  /\ Converting({<<"p">>})
  /\ LET digits == varbase(args_[1] % LONG, 16, UPPERCASE)
     IN shown' = shown \o <<"0", "x">> \o digits /\ sent' = sent \o <<"0", "x", NUL>> \o digits
  /\ AfterConversion
  /\ UNCHANGED <<asked, failing, halted>>

print_str ==
  /\ Converting({<<"s">>}) /\ args_[1] # NullString
  /\ display_str(args_[1])
  /\ AfterConversion
  /\ UNCHANGED <<asked, failing, halted>>

\* assert(s): the message is a printk in the printk.
AssertMessage ==
  <<Plain("Assert failed: "), Piece(<<"s">>, <<"core/src/printk.c">>), Plain(":"),
    Piece(<<"u">>, Line), Plain("\n")>>
AssertFails ==
  /\ Converting({<<"s">>}) /\ args_[1] = NullString
  /\ Enter(Format(AssertMessage), Arguments(AssertMessage))
  /\ failing' = TRUE
  /\ UNCHANGED <<shown, sent, asked, halted>>

\* assert_noprint: nothing is shown.
UnknownConversion ==
  /\ Active /\ fmt_ # <<>> /\ fmt_[1] = "%" /\ Conversion(fmt_) \notin Conversions
  /\ halted' = TRUE
  /\ UNCHANGED <<calls, shown, sent, asked, failing>>

\* The end of the format; after the message of an assert, SER_flush and HLT.
Return ==
  /\ Active /\ fmt_ = <<>>
  /\ IF failing THEN halted' = TRUE /\ UNCHANGED calls
       ELSE calls' = Front(calls) /\ UNCHANGED halted
  /\ UNCHANGED <<shown, sent, asked, failing>>

PrintkStep ==
  \/ Literal \/ Percent \/ print_char \/ print_number \/ print_ptr
  \/ print_str \/ AssertFails \/ UnknownConversion \/ Return

-----------------------------------------------------------------------------
(* What is to be printed.                                                  *)

Power(base, n) ==
  LET power[k \in 0 .. n] == IF k = 0 THEN 1 ELSE base * power[k - 1]
  IN power[n]

\* The numeral of a number: the digits from the right count the powers of base.
Numeral(v, base, digits) ==
  LET n == CHOOSE k \in 1 .. v + 1 :
             /\ v < Power(base, k)
             /\ k = 1 \/ Power(base, k - 1) <= v
  IN [k \in 1 .. n |-> digits[((v \div Power(base, n - k)) % base) + 1]]

\* The value of a type with w values an argument stands for.
Value(arg, w, signed) ==
  CHOOSE v \in IF signed THEN -(w \div 2) .. (w \div 2) - 1 ELSE 0 .. w - 1 : (v - arg) % w = 0

NumberText(conv, arg) ==
  LET v == Value(arg, Width(conv), Last(conv) = "d")
  IN IF Last(conv) = "x" THEN Numeral(v, 16, LOWERCASE)
     ELSE IF v < 0 THEN <<"-">> \o Numeral(-v, 10, LOWERCASE)
     ELSE Numeral(v, 10, LOWERCASE)

\* On the serial port a string, also the 0x of a pointer, is followed by NUL.
Text(p, nul) ==
  CASE p.conv = <<>> -> <<p.arg>>
    [] p.conv = <<"%">> -> <<"%">>
    [] p.conv = <<"c">> -> <<CharSet[(p.arg % Len(CharSet)) + 1]>>
    [] p.conv = <<"s">> -> p.arg \o nul
    [] p.conv = <<"p">> -> <<"0", "x">> \o nul \o Numeral(Value(p.arg, LONG, FALSE), 16, UPPERCASE)
    [] OTHER -> NumberText(p.conv, p.arg)

\* A lone '%' is not.
WellFormed(p) ==
  /\ p.conv \in Conversions \cup {<<>>}
  /\ p.conv = <<>> => p.arg # "%"
  /\ p.conv = <<"s">> => p.arg # NullString

\* A call with the arguments its conversions take, cut into pieces where printk
\* cuts it: what follows a piece that is no conversion does not make it one.
ProperCall(pieces) ==
  /\ pieces \in Seq(Range(pieces))
  /\ \A n \in DOMAIN pieces :
       LET p == pieces[n]
       IN /\ p = Piece(p.conv, p.arg) /\ p.conv \in Seq(STRING)
          /\ IF p.conv = <<>> THEN p.arg \in STRING /\ p.arg # NUL
             ELSE IF p.conv = <<"s">> THEN p.arg \in Seq(STRING) /\ NUL \notin Range(p.arg)
             ELSE p.arg \in Int
          /\ WellFormed(p) \/ p.conv = <<"s">>
               \/ Conversion(Format(SubSeq(pieces, n, Len(pieces)))) \notin Conversions

\* Up to the first piece that is no conversion, or a NULL string, after which
\* there is the message of the assert, if it has one.
Expected(nul) ==
  LET bad == SelectInSeq(asked, LAMBDA p : ~WellFormed(p))
      good == IF bad = 0 THEN asked ELSE SubSeq(asked, 1, bad - 1)
      last == IF bad = 0 \/ asked[bad].conv # <<"s">> THEN <<>>
              ELSE <<"Assert failed: ", "core/src/printk.c">> \o nul \o <<":", "3", "0", "5", "\n">>
  IN FlattenSeq([n \in DOMAIN good |-> Text(good[n], nul)]) \o last

Without(text, c) ==
  FlattenSeq([n \in DOMAIN text |-> IF text[n] = c THEN <<>> ELSE <<text[n]>>])

\* What printk puts on the screen and sends to the serial port is what it was
\* called for: every number in the numeral of its value in the type of the
\* conversion, at both ends of the types, every argument taken by its own
\* conversion, strings with their terminator on the serial port only; and a
\* call that the code asserts against stops exactly there.
PrintsWhatWasAsked ==
  /\ IsPrefix(shown, Expected(<<>>)) /\ IsPrefix(sent, Expected(<<NUL>>))
  /\ shown = Without(sent, NUL)
  /\ calls = <<>> \/ halted => shown = Expected(<<>>) /\ sent = Expected(<<NUL>>)
  /\ halted => \E n \in DOMAIN asked : ~WellFormed(asked[n])
  /\ calls = <<>> => \A n \in DOMAIN asked : WellFormed(asked[n])
=============================================================================
