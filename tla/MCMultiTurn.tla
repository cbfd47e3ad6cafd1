---------------------------- MODULE MCMultiTurn ----------------------------
EXTENDS MultiTurn

Base == [mode |-> "trainer", kind |-> "tips", inputs |-> <<2, 2>>, turns |-> 3, tokens |-> 1,
         scale |-> "default", steps |-> 2]

\* The loop of the trainer on two ranks, with dialogues that end in different turns;
\* responses of two tokens of two characters, which tips cut anywhere.
TrainerSettings ==
    { [Base EXCEPT !.kind = k, !.scale = l] : k \in {"plain", "ids"}, l \in {"default", "last_round"} }
    \cup { Base, [Base EXCEPT !.inputs = <<1, 1>>, !.tokens = 2] }

\* The schedulers of a server; "ids" is left out, see the README.
ServerSettings ==
    { [Base EXCEPT !.mode = "server", !.kind = k, !.scale = l, !.turns = 2] :
         k \in {"plain", "tips", "gym"}, l \in {"default", "last_round"} }
    \cup { [Base EXCEPT !.mode = "server", !.kind = "rounds", !.scale = "last_round"] }
    \cup { [Base EXCEPT !.mode = "server", !.kind = k, !.inputs = <<1, 1>>, !.tokens = 2] :
              k \in {"plain", "tips", "rounds", "gym"} }

MCSettings == TrainerSettings \cup ServerSettings

=============================================================================
