--------------------------- MODULE MCBootSequence ---------------------------
(* Small instances of BootSequence.                                        *)
EXTENDS BootSequence

OwnData(S) == {<<s, s>> : s \in S}

\* One bad store, every store bad, which the boots find out one by one, data
\* that is bad only for a later stage, and books that die as they open.
RecoverableData ==
    { {}, OwnData({"Settings"}), OwnData({"State"}), OwnData(Stores),
           {<<"Settings", "UiTheme">>, <<"ReadingStats", "Achievements">>},
           {<<"Language", "DisplayAndFonts">>} \cup OwnData({"KOReader", "OPDS"}) }

BadBooks == { {}, {<<"Book", "open">>}, {<<"Book", "paint">>} }

AllBadData == RecoverableData \cup BadBooks

BadSettings == { OwnData({"Settings"}) }

ColdStages == {"None", "ReadingStats"}
=============================================================================
