----------------------------- MODULE Bootvideo -----------------------------
(***************************************************************************)
(* The screen that the kernel and, by KDEBUG, the programs write on:       *)
(* i386/bootvideo.c and the formatting of servers/libak/syscall.c.  Each   *)
(* cell of the text screen is its character; all have one attribute.       *)
(***************************************************************************)
EXTENDS Integers, Sequences, SequencesExt

CONSTANTS
  NUM_COLS, NUM_ROWS,
  Char,       \* the characters
  IntValues,  \* how many values an int, or an unsigned long, has: 2^32
  Messages,   \* the <<format, arguments>> that the kernel prints
  Puts,       \* those that programs format and put on the screen
  MaxText     \* a bound on what has been printed when the last message comes

\* The screen is moved and cleared two cells at a time.
ASSUME ScreenAssumption ==
  /\ NUM_COLS \in Nat \ {0} /\ NUM_ROWS \in Nat \ {0} /\ NUM_COLS % 2 = 0
  /\ MaxText \in Nat

\* No int has more than ten digits.
ASSUME IntAssumption == IntValues \in Nat \ {0} /\ IntValues \div 1000000000 < 10

VARIABLES
  video, row, col,
  text            \* every character that was put since the screen was cleared

screenVars == <<video, row, col, text>>

Blank == " "
Newline == "\n"
NoString == <<"NULL">>  \* a null pointer for %s

Cells == 0 .. NUM_COLS * NUM_ROWS - 1
LastRow == NUM_COLS * (NUM_ROWS - 1) .. NUM_COLS * NUM_ROWS - 1

-----------------------------------------------------------------------------
\* bootvideo_cls(), the first thing that cmain() does
ScreenInit ==
  /\ video = [i \in Cells |-> Blank]
  /\ row = 0 /\ col = 0
  /\ text = <<>>

\* A slip in the next one: the last row is not cleared.
ScrolledUncleared(s) ==
  [s EXCEPT !.video = [i \in Cells |-> IF i \in LastRow THEN s.video[i] ELSE s.video[i + NUM_COLS]],
            !.row = NUM_ROWS - 1]

Scrolled(s) ==
  [s EXCEPT !.video = [i \in Cells |-> IF i \in LastRow THEN Blank ELSE s.video[i + NUM_COLS]],
            !.row = NUM_ROWS - 1]

Put(s, c) ==
  IF c = Newline THEN [s EXCEPT !.col = 0, !.row = @ + 1]
  ELSE LET put == [s EXCEPT !.video[s.row * NUM_COLS + s.col] = c, !.col = @ + 1]
       IN  IF put.col >= NUM_COLS THEN [put EXCEPT !.col = 0, !.row = @ + 1] ELSE put

Putc(s, c) ==
  LET put == Put(s, c) IN IF put.row >= NUM_ROWS THEN Scrolled(put) ELSE put

-----------------------------------------------------------------------------
Digits == <<"0", "1", "2", "3", "4", "5", "6", "7", "8", "9", "a", "b", "c", "d", "e", "f">>

ASSUME CharAssumption ==
  /\ ToSet(Digits) \cup {"-", "(", "n", "u", "l", ")"} \subseteq Char
  /\ "NULL" \notin Char

Divisor(base) == IF base = "x" THEN 16 ELSE 10

\* The digits of ud, the last one first, as the loop of itoa() writes them.
Reversed(ud, divisor) ==
  LET f[n \in 0 .. ud] ==
        IF n < divisor THEN <<Digits[n + 1]>>
        ELSE <<Digits[(n % divisor) + 1]>> \o f[n \div divisor]
  IN  f[ud]

\* A slip in the next one: the sign is turned round with the digits.
ItoaSignLast(base, d) ==
  IF base = "d" /\ d < 0
  THEN Reverse(<<"-">> \o Reversed((-d) % IntValues, Divisor(base)))
  ELSE Reverse(Reversed(d % IntValues, Divisor(base)))

\* itoa(): everything but %d is unsigned, and -d stays what it is for the
\* smallest int.
Itoa(base, d) ==
  IF base = "d" /\ d < 0
  THEN <<"-">> \o Reverse(Reversed((-d) % IntValues, Divisor(base)))
  ELSE Reverse(Reversed(d % IntValues, Divisor(base)))

\* The library has a copy of its own.
LibItoa(base, d) == Itoa(base, d)

String(p) == IF p = NoString THEN <<"(", "n", "u", "l", "l", ")">> ELSE p

\* What a character of the format adds to what has been written; `arg' runs
\* through the arguments.
Plain(s, c) == IF c = "%" THEN [s EXCEPT !.percent = TRUE]
               ELSE [s EXCEPT !.out = Append(@, c)]

Written(s, chars) ==
  [out |-> s.out \o chars, arg |-> s.arg + 1, percent |-> FALSE]

Formatted(format, args, Converted(_, _)) ==
  FoldLeft(LAMBDA s, c : IF ~s.percent THEN Plain(s, c)
                         ELSE Written(s, Converted(c, args[s.arg])),
           [out |-> <<>>, arg |-> 1, percent |-> FALSE], format)

Format(format, args, Converted(_, _)) == Formatted(format, args, Converted).out

\* The switches of bootvideo_printf() and of the library's sprintf().
Converted(c, arg) ==
  CASE c \in {"d", "u", "x", "l"} -> Itoa(c, arg)
    [] c = "s" -> String(arg)
    [] OTHER -> <<arg>>

LibConverted(c, arg) ==
  CASE c \in {"d", "u", "x"} -> LibItoa(c, arg)
    [] c = "s" -> String(arg)
    [] OTHER -> <<arg>>

Sprintf(format, args) == Format(format, args, LibConverted)

Ints == -(IntValues \div 2) .. (IntValues \div 2) - 1

\* What a conversion takes: a number, a string or, as with %c, a character.
Kind(c, ints) == CASE c \in ints -> Ints [] c = "s" -> Seq(Char) \cup {NoString} [] OTHER -> Char

\* Nothing checks that the arguments fit the format; those of all callers do.
Fits(format, args, Conversion(_, _), ints) ==
  /\ format \in Seq(Char)
  /\ \A i \in 1 .. Len(format) :
       LET s == Formatted(SubSeq(format, 1, i - 1), args, Conversion)
       IN  s.percent => args[s.arg] \in Kind(format[i], ints)

ASSUME MessagesAssumption ==
  /\ \A m \in Messages : Fits(m[1], m[2], Converted, {"d", "u", "x", "l"})
  /\ \A m \in Puts : Fits(m[1], m[2], LibConverted, {"d", "u", "x"})

-----------------------------------------------------------------------------
Screen == [video |-> video, row |-> row, col |-> col]

Printf(format, args) ==
  LET chars == Format(format, args, Converted)
      s == FoldLeft(Putc, Screen, chars)
  IN  /\ Len(text) <= MaxText
      /\ text' = text \o chars
      /\ video' = s.video /\ row' = s.row /\ col' = s.col

KernelPrints == \E m \in Messages : Printf(m[1], m[2])

\* A slip in the next one: the string is taken for a format.
KdebugFormat(string) == Printf(string, <<0, 0, 0>>)

\* SYSCALL_KDEBUG
Kdebug(string) == Printf(<<"%", "s">>, <<string>>)

\* sprintf() and puts(), as kbd.c and test3.c use them
ProgramPuts(m) == m \in Puts /\ Kdebug(Sprintf(m[1], m[2]))

ScreenNext == KernelPrints \/ \E m \in Puts : ProgramPuts(m)

-----------------------------------------------------------------------------
\* The lines of the text: a new one begins after a newline, and after NUM_COLS
\* characters.
Lines ==
  FoldLeft(LAMBDA ls, c :
      IF c = Newline THEN Append(ls, <<>>)
      ELSE LET l == Append(Last(ls), c) IN
           IF Len(l) = NUM_COLS THEN Front(ls) \o <<l, <<>>>> ELSE Append(Front(ls), l),
    <<<<>>>>, text)

Shown(ls, i) ==
  LET first == IF Len(ls) > NUM_ROWS THEN Len(ls) - NUM_ROWS ELSE 0
      n == first + i \div NUM_COLS + 1
      c == (i % NUM_COLS) + 1
  IN  IF n <= Len(ls) /\ c <= Len(ls[n]) THEN ls[n][c] ELSE Blank

\* The screen shows the last lines of all that was printed, and the cursor is
\* behind the last character, inside the screen (bootvideo.c:18-43).
ScreenShowsText ==
  /\ \A i \in Cells : video[i] = Shown(Lines, i)
  /\ col = Len(Last(Lines))
  /\ row = (IF Len(Lines) > NUM_ROWS THEN NUM_ROWS ELSE Len(Lines)) - 1
  /\ row * NUM_COLS + col \in Cells

Added == SubSeq(text', Len(text) + 1, Len(text'))

Position(c) == (CHOOSE i \in 1 .. 16 : Digits[i] = c) - 1

Value(base, chars) == FoldLeft(LAMBDA n, c : n * Divisor(base) + Position(c), 0, chars)

\* A numeral stands for the number, is as short as it can be, and fits into the
\* 20 bytes that printf() has for it, also for the smallest int (bootvideo.c:45-85).
Denotes(base, d, chars) ==
  LET signed == base = "d" /\ d < 0
      digits == IF signed THEN Tail(chars) ELSE chars
  IN  /\ signed => Head(chars) = "-"
      /\ ToSet(digits) \subseteq ToSet(Digits)
      /\ Value(base, digits) = (IF signed THEN -d ELSE d % IntValues)
      /\ Len(digits) > 1 => Head(digits) # "0"
      /\ Len(chars) < 20

NumbersDenote ==
  [][\A m \in Messages :
       Len(m[1]) = 2 /\ m[1][1] = "%" /\ m[1][2] \in {"d", "u", "x", "l"} /\ Printf(m[1], m[2]) =>
         Denotes(m[1][2], m[2][1], Added)]_screenVars

\* What a program formats reaches the screen as it is, also what looks like a
\* conversion in it (syscall.c:34-36, libak/syscall.c:6-8, 206-252).
PutsIsVerbatim ==
  [][\A m \in Puts : ProgramPuts(m) => Added = Sprintf(m[1], m[2])]_screenVars
=============================================================================
