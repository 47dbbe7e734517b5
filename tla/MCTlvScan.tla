----------------------------- MODULE MCTlvScan -----------------------------
(* TlvScan with four values to a byte, so that lengths go up to 15, and      *)
(* modest tails.                                                             *)
EXTENDS TlvScan

Values == {<< >>, << 0 >>, << 3, 1 >>}
MCFields == [tag : {0, 1}, value : Values]
MCFieldLists == {<< >>} \cup {<< f >> : f \in MCFields} \cup (MCFields \X MCFields)

Pieces == BoundedSeq(Byte, 4)
AllTails == {t \in Pieces : ~WholeField(t)}
ModestTails == {t \in AllTails : Modest(t)}

MCTags == {0, 1, 2}

=============================================================================
