------------------------------ MODULE Comparison ----------------------------
(***************************************************************************)
(* Whether two emissions of a test set say the same                        *)
(* (certification_compare.py). Folios, dates, stamps and signatures change *)
(* with every emission; a folio is replaced by the position of its         *)
(* document among those of its type, also where another document refers to *)
(* it. An envelope is a sequence of documents [type, folio, refs, rest,    *)
(* signed]: refs are [type, folio], rest stands for every other leaf that  *)
(* is content and signed for those that are not.                           *)
(***************************************************************************)
EXTENDS Integers, Sequences, FiniteSets

(* A folio becomes <<type, n>>: the n-th of its type in the envelope.      *)
Numbered(envelope) ==
  LET keys == {<<envelope[i].type, envelope[i].folio>> : i \in DOMAIN envelope}
      firstOf(k) == CHOOSE i \in DOMAIN envelope :
                      /\ <<envelope[i].type, envelope[i].folio>> = k
                      /\ \A j \in 1..(i - 1) : <<envelope[j].type, envelope[j].folio>> # k
  IN  [k \in keys |-> <<k[1], Cardinality({l \in keys : l[1] = k[1] /\ firstOf(l) <= firstOf(k)})>>]

Position(folios, type, folio) ==
  IF <<type, folio>> \in DOMAIN folios THEN folios[<<type, folio>>] ELSE <<folio>>

(* Seeded fault: what a document refers to is taken as it is written.      *)
Leaves_LiteralReferences(envelope, i) ==
  LET doc == envelope[i]
      folios == Numbered(envelope)
  IN  {<<<<i, "type">>, <<doc.type>>>>, <<<<i, "folio">>, Position(folios, doc.type, doc.folio)>>,
       <<<<i, "rest">>, <<doc.rest>>>>}
      \cup {<<<<i, "ref", r, "type">>, <<doc.refs[r].type>>>> : r \in DOMAIN doc.refs}
      \cup {<<<<i, "ref", r, "folio">>, <<doc.refs[r].folio>>>> : r \in DOMAIN doc.refs}
(* The leaves of a document that are content: path and value.              *)
Leaves(envelope, i) ==
  LET doc == envelope[i]
      folios == Numbered(envelope)
      place(ref) == Position(folios, ref.type, ref.folio)
  IN  {<<<<i, "type">>, <<doc.type>>>>, <<<<i, "folio">>, Position(folios, doc.type, doc.folio)>>,
       <<<<i, "rest">>, <<doc.rest>>>>}
      \cup {<<<<i, "ref", r, "type">>, <<doc.refs[r].type>>>> : r \in DOMAIN doc.refs}
      \cup {<<<<i, "ref", r, "folio">>, place(doc.refs[r])>> : r \in DOMAIN doc.refs}

Contents(envelope) == UNION {Leaves(envelope, i) : i \in DOMAIN envelope}

(* comparar: the paths where one has what the other has not.               *)
Differing(approved, emitted) ==
  LET a == Contents(approved)
      e == Contents(emitted)
  IN  {leaf[1] : leaf \in (a \ e) \cup (e \ a)}
-----------------------------------------------------------------------------
(* A reference names a document of the same envelope, or one outside.      *)
Names(envelope, ref) ==
  {i \in DOMAIN envelope : envelope[i].type = ref.type /\ envelope[i].folio = ref.folio}

(* The two emissions list the same documents, which refer to the same.     *)
SameContent(a, b) ==
  /\ Len(a) = Len(b)
  /\ \A i \in DOMAIN a :
       /\ a[i].type = b[i].type /\ a[i].rest = b[i].rest
       /\ Len(a[i].refs) = Len(b[i].refs)
       /\ \A r \in DOMAIN a[i].refs :
            /\ a[i].refs[r].type = b[i].refs[r].type
            /\ Names(a, a[i].refs[r]) = Names(b, b[i].refs[r])
            /\ Names(a, a[i].refs[r]) = {} => a[i].refs[r].folio = b[i].refs[r].folio

(* There is no difference exactly when the contents are the same, whatever *)
(* folios either emission took, if none has two documents with one folio.  *)
ComparisonTells(a, b, differing) ==
  LET distinct(e) == \A i, j \in DOMAIN e :
                       e[i].type = e[j].type /\ e[i].folio = e[j].folio => i = j
  IN  distinct(a) /\ distinct(b) => (differing = {} <=> SameContent(a, b))
=============================================================================
