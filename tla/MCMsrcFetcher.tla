---------------------------- MODULE MCMsrcFetcher ----------------------------
(* A small instance of MsrcFetcher.                                        *)
EXTENDS MsrcFetcher, TLC

CONSTANTS fx35, fx48, core8, w10, w11, kb1, kb2, kb3, kb4, kb5,
          aug, sep, odd, augDay, sepDay, sepFix, noDate, noSystem

MCFrameworks == {fx35, fx48}
MCCores      == {core8}
MCSystems    == {w10, w11}
MCKBs        == {kb1, kb2, kb3, kb4, kb5}
MCDates      == {augDay, sepDay, sepFix}
MCMonthOf    == (augDay :> aug) @@ (sepDay :> sep) @@ (sepFix :> sep)

\* Two months and an update without a date; kb1 and kb2 are fixed twice, and one
\* document breaks off.
MCUpdates     == <<sep, aug, odd>>
MCReleaseDate == (sep :> sepDay) @@ (aug :> augDay) @@ (odd :> noDate)
Doc(tree, fixes, broken) == [products |-> tree, fixes |-> fixes, broken |-> broken]
September == <<[kb |-> kb1, products |-> {fx35, fx48}], [kb |-> kb2, products |-> {core8}],
               [kb |-> kb3, products |-> {core8}], [kb |-> kb2, products |-> {core8, fx48}]>>
August    == <<[kb |-> kb1, products |-> {fx35}], [kb |-> kb3, products |-> {fx48}]>>
MCDocuments ==
  (sep :> {Doc({fx35, fx48, core8}, September, FALSE),
           Doc({fx35, fx48, core8}, SubSeq(September, 1, 2), TRUE), Doc({}, <<>>, FALSE)})
  @@ (aug :> {Doc({fx35, fx48}, August, FALSE), Doc({fx35}, SubSeq(August, 1, 1), TRUE)})
  @@ (odd :> {Doc({fx35, core8}, <<[kb |-> kb2, products |-> {fx35, core8}]>>, FALSE)})

\* Articles that list one bundle twice, one bundle on two pages, a bundle that is a
\* granular KB as well, and a link that is broken.
Item(kb, os, date, broken) == [kb |-> kb, os |-> os, date |-> date, broken |-> broken]
Page(date, os, listings)   == [date |-> date, os |-> os, listings |-> listings]
MCArticles ==
  (kb1 :> {Page(sepFix, w10, <<Item(kb4, w10, sepDay, FALSE), Item(kb4, w10, sepDay, FALSE),
                               Item(kb5, w11, noDate, FALSE)>>),
           Page(noDate, w10, <<Item(kb4, w10, sepDay, TRUE), Item(kb5, w11, noDate, FALSE)>>)})
  @@ (kb2 :> {Page(noDate, noSystem, <<Item(kb4, w10, sepDay, FALSE)>>),
              Page(sepFix, w11, <<>>)})
  @@ (kb3 :> {Page(augDay, w11, <<Item(kb5, w11, sepFix, FALSE), Item(kb2, w10, sepDay, FALSE)>>)})
  @@ (kb4 :> {}) @@ (kb5 :> {})
=============================================================================
