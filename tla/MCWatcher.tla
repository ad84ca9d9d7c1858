------------------------------ MODULE MCWatcher ------------------------------
EXTENDS Watcher

CONSTANTS left, right

\* Rows found at start-up: watched and never polled, or up to date with 1.
FreshOrCurrent == {0, 1}
NotYetWatched == {Unwatched}
AnyRow == {0, 1, Unwatched}
===============================================================================
