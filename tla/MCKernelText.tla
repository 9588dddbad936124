---------------------------- MODULE MCKernelText ----------------------------
EXTENDS KernelText

MCChar ==
  ToSet(Digits) \cup {" ", "%", "\n", ":", "-", "(", ")", "l", "n", "s", "u", "x"}

MCMessages ==
  {<<chars, <<>> >> : chars \in UNION {[1 .. n -> {"a", "\n"}] : n \in 1 .. 3}}
    \cup {<< <<"%", base>>, <<d>> >> : base \in {"d", "u", "x", "l"}, d \in Ints}
    \cup {<< <<"%", "s">>, <<NoString>> >>}

\* A key's message, a percent sign among it, and a conversion sprintf() has not.
MCPuts ==
  {<< <<":", "%", "d", "\n">>, <<3>> >>,
   << <<"%", "s">>, << <<"%", "u">> >> >>,
   << <<"%", "l">>, <<"c">> >>}

MCNames == UNION {[1 .. n -> {1, 2}] : n \in 1 .. 3}
=============================================================================
