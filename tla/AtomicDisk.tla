----------------------------- MODULE AtomicDisk ------------------------------
(* What DiskManager promises the operators of a query: a write takes effect  *)
(* at once, and a read returns what was written last.                        *)
EXTENDS Naturals

VARIABLES pages,    \* the blocks written so far
          asked,    \* the range of the read under way, or <<>>
          answer,   \* what the last read returned
          open      \* the session is under way

vars == <<pages, asked, answer, open>>

Init == pages = <<>> /\ asked = <<>> /\ answer = <<>> /\ open = TRUE

\* New blocks appear, and no block that was written before changes.
Write == /\ open /\ asked = <<>>
         /\ DOMAIN pages \subseteq DOMAIN pages'
         /\ \A b \in DOMAIN pages : pages'[b] = pages[b]
         /\ UNCHANGED <<asked, answer, open>>

Ask == /\ open /\ asked = <<>>
       /\ \E start, last \in DOMAIN pages :
              /\ start <= last /\ start .. last \subseteq DOMAIN pages
              /\ asked' = <<start, last - start + 1>>
       /\ UNCHANGED <<pages, answer, open>>

Answer == /\ open /\ asked # <<>>
          /\ answer' = [i \in 1 .. asked[2] |-> pages[asked[1] + i - 1]]
          /\ asked' = <<>>
          /\ UNCHANGED <<pages, open>>

\* The session ends, or the process that holds it is killed.
End == /\ open /\ open' = FALSE
       /\ UNCHANGED <<pages, asked, answer>>

Next == Write \/ Ask \/ Answer \/ End

Spec == Init /\ [][Next]_vars
=============================================================================
