------------------------------ MODULE MCEvals ------------------------------
EXTENDS Evals

CheckedBy(tier, documents, code, points, grounded) ==
    [tier |-> tier, documents |-> documents, code |-> code, points |-> points, grounded |-> grounded]

\* A corpus case that code and the judge check, edited until only grounding is;
\* a probe that an edit leaves with nothing to check.
MCLines ==
    << {CheckedBy("must", TRUE, TRUE, 1, FALSE), CheckedBy("must", TRUE, FALSE, 0, TRUE)},
       {CheckedBy("probe", FALSE, TRUE, 0, FALSE), CheckedBy("probe", FALSE, FALSE, 0, FALSE)} >>
=============================================================================
