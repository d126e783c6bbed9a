-------------------------- MODULE MCCertification ---------------------------
(* A set of documents, the book made of it and the set of receipts.        *)
EXTENDS Certification, TLC

MCKind == <<"basico", "libro_ventas", "boletas">>

(* Both documents accepted; both refused in an envelope that is processed. *)
MCAnswers == {Verdict("EPR", 2, 2, 0, 0), Verdict("EPR", 2, 0, 2, 0)}
Symmetry == Permutations(Worker)
=============================================================================
