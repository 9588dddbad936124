---------------------------- MODULE MCProcesses ----------------------------
EXTENDS Processes

\* Low and high memory, the hole between them not listed.
MCMemoryMaps ==
  {<<[first |-> 0, last |-> 49, available |-> TRUE],
     [first |-> 52, last |-> 90, available |-> TRUE]>>}

Segment(va, len) == [va |-> va, len |-> len]

\* One program, whose second segment begins on the last page of its first or
\* leaves a gap behind it, or two programs.
MCBootModules ==
  {<< <<Segment(4, 2), Segment(5, 1)>> >>,
   << <<Segment(4, 1), Segment(6, 1)>> >>,
   << <<Segment(4, 1)>>, <<Segment(4, 1)>> >>}
\* The word behind is zero.
MCResidues == {<<>>}

\* It may be the number of a process.
MCStaleResidues == {<<>>, <<1>>}
=============================================================================
