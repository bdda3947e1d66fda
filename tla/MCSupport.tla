------------------------------- MODULE MCSupport -------------------------------
(***************************************************************************)
(* The three personas with the figures of their manifests; entries of an   *)
(* engine that differ in what the parser looks at; a host as it is set up, *)
(* one without lsof and one whose .env has no arbiter; and transcripts in  *)
(* which a round is settled and then played again by a restarted buyer,    *)
(* once up to a refund before a late delivery, and consent is rejected.    *)
(***************************************************************************)
EXTENDS Support

MCCategories == <<"tls", "hdr", "xss">>
MCPersonas == {
  [floor |-> 600, offers |-> <<"hdr", "tls">>, strategy |-> "discount", mode |-> "quick", efficiency |-> 90],
  [floor |-> 1500, offers |-> <<"tls", "hdr">>, strategy |-> "specialist", mode |-> "standard", efficiency |-> 100],
  [floor |-> 4500, offers |-> <<>>, strategy |-> "premium", mode |-> "deep", efficiency |-> 105],
  [floor |-> 600, offers |-> <<"all">>, strategy |-> "cheap", mode |-> "deep", efficiency |-> 5]}
MCAsked == {<<"hdr">>, <<"tls", "hdr">>, <<"xss", "hdr", "xss">>, <<"seo">>}
MCSites == {[pages |-> 10, forms |-> 2, endpoints |-> 5, params |-> 7],
            [pages |-> 60, forms |-> 12, endpoints |-> 40, params |-> 55]}
MCScopes == {<<"hdr">>, <<"xss", "tls">>, <<"seo">>}

Entry(title, level, score, vector, id) ==
  [title |-> title, level |-> level, score |-> score, vector |-> vector, id |-> id]
MCEntries == {
  Entry(TRUE, "low", 95, "3.1", Missing), Entry(TRUE, "severe", Missing, "none", <<"AM", 1>>),
  Entry(TRUE, "unknown", 120, "breakdown", <<"own", 7>>), Entry(TRUE, "note", 40, "2.0", Missing),
  Entry(FALSE, "critical", 100, "3.1", <<"AM", 2>>)}
Listings == UNION {[1 .. n -> MCEntries] : n \in 0 .. 2}
Output(t, r, s, d) == [top |-> t, report |-> r, result |-> s, data |-> d]
MCOutputs ==
  {Output(l, Missing, Missing, Missing) : l \in Listings}
  \cup {Output(Missing, <<>>, l, Missing) : l \in {x \in Listings : Len(x) = 1}}
  \cup {Output(Missing, Missing, Missing, Missing)}

Bid(r, s, p) == [round |-> r, verb |-> "BID", by |-> s, price |-> p]
Award(r, s) == [round |-> r, verb |-> "AWARD", to |-> s]
Terms(r, p) == [round |-> r, verb |-> "ESCROW_REQUIRED", price |-> p]
Authz(r, v) == [round |-> r, verb |-> "AUTHZ_RESULT", status |-> v]
Only(r, v) == [round |-> r, verb |-> v]
MCScript == <<
  << <<Bid(1, "d", 6), Bid(1, "p", 45), Award(1, "d"), Authz(1, "verified"), Terms(1, 6),
       Only(1, "DEPOSITED"), Only(1, "DELIVERED"), Only(1, "RELEASED"), Bid(2, "p", 45)>>,
     <<Award(2, "p"), Terms(2, 45), Only(2, "DEPOSITED"),
       Bid(1, "d", 8), Award(1, "d"), Terms(1, 8), Only(1, "DEPOSITED")>> >>,
  << <<Bid(1, "d", 6), Award(1, "d"), Authz(1, "rejected"), Terms(1, 6), Only(1, "DEPOSITED"),
       Bid(2, "p", 45), Award(2, "p"), Authz(2, "verified"), Terms(2, 45), Only(2, "DEPOSITED"),
       Only(2, "RELEASED"), Award(2, "p"), Only(2, "DEPOSITED"), Only(2, "REFUNDED"),
       Only(2, "DELIVERED")>> >> >>

MCEnvs == {
  [wallets |-> TRUE, llm |-> TRUE, settlement |-> "arbiter", arbiterKey |-> TRUE, lsof |-> TRUE],
  [wallets |-> TRUE, llm |-> TRUE, settlement |-> "direct", arbiterKey |-> FALSE, lsof |-> FALSE],
  [wallets |-> TRUE, llm |-> TRUE, settlement |-> "unset", arbiterKey |-> FALSE, lsof |-> TRUE]}
================================================================================
