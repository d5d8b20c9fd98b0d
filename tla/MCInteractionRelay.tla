------------------------- MODULE MCInteractionRelay -------------------------
EXTENDS InteractionRelay

\* A single- and a multi-select item with two options, an item without options,
\* and one with a label twice.
ItemShapes ==
  {[opts |-> <<"yes", "no">>, multi |-> FALSE], [opts |-> <<"yes", "no">>, multi |-> TRUE],
   [opts |-> <<>>, multi |-> FALSE], [opts |-> <<"yes", "yes">>, multi |-> TRUE]}

\* A text of its own, and one that is spelled like an option id.
Typed == {"maybe", "option-0"}

TwoOptionIds == <<"option-0", "option-1">>

============================================================================
