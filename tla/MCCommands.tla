----------------------------- MODULE MCCommands ----------------------------
(* What is typed: one symbol of each class the parser tells apart.         *)
EXTENDS Commands

MCSymbols == {" ", "nl", ".", "di", "xiang", "shi", "er", "liang", "2", "0", "+",
              "last", "req-1", "word", "true", "{}"}
MCTokenWords == {"req-1"}
=============================================================================
