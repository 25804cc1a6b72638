------------------------ MODULE MCResourceCreation ------------------------
EXTENDS ResourceCreation

MCSymbols == {"RNFT", "RFT", "typo"}

Token(s, n) == [symbol |-> s, mints |-> n, valid |-> TRUE]

\* The file of the repository; one with a symbol that two
\* tokens have and one that no token has; one with a token that is not valid;
\* one without tokens and one without accounts.
MCResources ==
    { [tokens |-> <<Token("RNFT", 2), Token("RFT", 0)>>,
       accounts |-> <<{"RNFT", "RFT"}, {"RNFT"}>>],
      [tokens |-> <<Token("RNFT", 1), Token("RNFT", 1)>>,
       accounts |-> <<{"RNFT", "typo"}>>],
      [tokens |-> <<Token("RNFT", 2), [Token("RFT", 0) EXCEPT !.valid = FALSE]>>,
       accounts |-> <<{"RNFT"}>>],
      [tokens |-> <<>>, accounts |-> <<{}, {"typo"}>>],
      [tokens |-> <<Token("RNFT", 2)>>, accounts |-> <<>>] }

=============================================================================
