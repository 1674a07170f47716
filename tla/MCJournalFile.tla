--------------------------- MODULE MCJournalFile ---------------------------
(* Two strategies and one symbol that may pass from one to the other or to  *)
(* nobody; the last two configurations are refused.                         *)
EXTENDS JournalFile, TLC

CONSTANT A

MCRegistered == {"Momentum", "Breakout"}

Assigns(name, symbols) == [name |-> name, symbols |-> symbols]

MCConfigs ==
    {<<Assigns("Momentum", <<A>>)>>,
     <<Assigns("Breakout", <<A>>), Assigns("Momentum", <<>>)>>,
     <<Assigns("Unknown", <<>>)>>,
     <<Assigns("Momentum", <<A>>), Assigns("Breakout", <<A>>)>>,
     <<Assigns("Unknown", <<A>>)>>}
=============================================================================
