------------------------------ MODULE MCSearch ------------------------------
(***************************************************************************)
(* Three files, one code of the dictionary that appears in all of them and *)
(* one constant. A behaviour spends one of four budgets: two runs of the   *)
(* cache builder with three faults; one indexing and three resumed runs,   *)
(* with three faults; an indexing, two searches, a decision and one fault; *)
(* or three requests on a reference document, with two faults.             *)
(***************************************************************************)
EXTENDS Search

MCFiles == <<"Leave.java", "Tax.java", "Wage.xml">>
MCSymbols == ("Leave.java" :> <<"days", "rate">>) @@ ("Tax.java" :> <<"rate", "limit">>)
             @@ ("Wage.xml" :> <<"n0200", "">>)
MCSizes == ("Leave.java" :> 1) @@ ("Tax.java" :> 2) @@ ("Wage.xml" :> 1)
MCSimilarity == ("Leave.java" :> 60) @@ ("Tax.java" :> 85) @@ ("Wage.xml" :> 85)
MCCodes == <<[symbol |-> "n0200", score |-> 75, files |-> <<"Tax.java", "Leave.java", "Wage.xml">>]>>
MCValues == <<[symbol |-> "rate", score |-> 85, files |-> <<"Tax.java">>]>>
MCDecisions == {[state |-> "verified", reason |-> "matched_historical_change"],
                [state |-> "verified", reason |-> "legacy verified backfill"],
                [state |-> "rejected", reason |-> ""], [state |-> "stale", reason |-> ""]}

None == [index |-> 0, resume |-> 0, cache |-> 0, faults |-> 0, uploads |-> 0, requests |-> 0, decisions |-> 0]
MCBudgets == {[None EXCEPT !.cache = 2, !.faults = 3],
              [None EXCEPT !.index = 1, !.resume = 3, !.faults = 3],
              [None EXCEPT !.index = 1, !.faults = 1, !.requests = 2, !.decisions = 1],
              [None EXCEPT !.uploads = 3, !.faults = 2]}
=============================================================================
