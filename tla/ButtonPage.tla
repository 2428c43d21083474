------------------------------ MODULE ButtonPage ------------------------------
(***************************************************************************)
(* Qt/Shell/QAbstractButton/ButtonPage.cpp: four buttons and a label that  *)
(* page through a number of things.  Pages count from 0.  A button that is *)
(* disabled is not clicked.                                                *)
(***************************************************************************)
EXTENDS Integers

CONSTANTS
  Count, CountPerPage, PageIndex,  \* what reset() is called with
  Garbage,                         \* what the members hold before
  MaxClick                         \* bound: clicks and resets

VARIABLES
  pageIndex, pageCount,
  back, forward,   \* first and previous, and next and last, are enabled
  label,           \* the page and the number of pages it shows
  told,            \* the page that the last event told, if any
  good,            \* history: the last reset gave a page that there is
  crashed,         \* a division by zero
  clicks

pageVars == <<pageIndex, pageCount, back, forward, label, told, good, crashed, clicks>>

NoPage == [page |-> 0, of |-> 0]

\* The members have no values yet; buttons are enabled.
PageInit ==
  /\ pageIndex \in Garbage /\ pageCount \in Garbage
  /\ back = TRUE /\ forward = TRUE
  /\ label = NoPage
  /\ told = <<>> /\ good = FALSE /\ crashed = FALSE /\ clicks = 0

shown(index, pages) ==
  [page |-> IF index < 0 THEN 1 ELSE index + 1, of |-> IF pages = 0 THEN 1 ELSE pages]

\* Variant: there is a next page on the last one, too.
hasNext_Same(index, pages) == index >= 0 /\ index < pages
hasNext(index, pages) == index >= 0 /\ index + 1 < pages

\* One past the last page is let through.
setPageIndex(index, pages) ==
  /\ pageCount' = pages
  /\ IF index > pages THEN UNCHANGED <<pageIndex, back, forward, label, told>>
     ELSE /\ pageIndex' = index
          /\ back' = (index > 0) /\ forward' = hasNext(index, pages)
          /\ label' = shown(index, pages)
          /\ told' = IF pageIndex # index THEN <<index>> ELSE told

pagesOf(count, perPage) == (count \div perPage) + (IF count % perPage > 0 THEN 1 ELSE 0)

\* A parameter that is missing is 0; the index, too.
reset(count, perPage, index) ==
  IF perPage = 0
  THEN crashed' = TRUE /\ UNCHANGED <<pageIndex, pageCount, back, forward, label, told, good>>
  ELSE /\ setPageIndex(index, pagesOf(count, perPage))
       /\ good' = (index = 0 \/ index \in 0..(pagesOf(count, perPage) - 1))
       /\ UNCHANGED crashed

goes(index) == setPageIndex(index, pageCount) /\ UNCHANGED <<good, crashed>>
several == pageCount > 1
firstPage_onClicked == back /\ pageIndex >= 0 /\ several /\ goes(0)
previousPage_onClicked == back /\ pageIndex >= 0 /\ several /\ goes(pageIndex - 1)
nextPage_onClicked == forward /\ pageIndex < pageCount /\ several /\ goes(pageIndex + 1)
lastPage_onClicked == forward /\ pageIndex < pageCount /\ several /\ goes(pageCount - 1)

PageNext ==
  /\ ~crashed /\ clicks < MaxClick /\ clicks' = clicks + 1
  /\ \/ \E c \in Count, n \in CountPerPage, i \in PageIndex : reset(c, n, i)
     \/ firstPage_onClicked \/ previousPage_onClicked
     \/ nextPage_onClicked \/ lastPage_onClicked

PageSpec == PageInit /\ [][PageNext]_pageVars

\* From a reset to a page that there is, and whatever was rejected or wrong before, no click
\* leaves the pages: the buttons are enabled exactly when there is a page to go to, the
\* label shows the page, and who listens to the events knows it.
PagesSound ==
  good =>
    LET pages == IF pageCount = 0 THEN 1 ELSE pageCount IN
    /\ pageIndex \in 0..(pages - 1)
    /\ back <=> pageIndex > 0
    /\ forward <=> pageIndex < pages - 1
    /\ label = [page |-> pageIndex + 1, of |-> pages]
    /\ told # <<>> => told[1] = pageIndex
===============================================================================
