-------------------------------- MODULE HeapOps --------------------------------
(***************************************************************************)
(* The array algorithms behind put(), get() and change_sched() of          *)
(* kernel/proc.c.  An array of n entries is a function on 0..n-1, and the  *)
(* loops index it as the C code does.  key[p] is what the policy sorts by: *)
(* cpu_burst_aprox for algorithm 0, exe_time for any other.                *)
(***************************************************************************)
EXTENDS Integers, FiniteSets

\* Mutant of Swap: the second half of the exchange is lost.
SwapOneSided(arr, i, j) == [arr EXCEPT ![i] = arr[j]]

Swap(arr, i, j) == [arr EXCEPT ![i] = arr[j], ![j] = arr[i]]

RECURSIVE SiftUp(_, _, _, _)
SiftUp(arr, curr, up, key) ==
  IF key[arr[curr]] < key[arr[up]]
    THEN IF up = 0 THEN Swap(arr, curr, up)
                   ELSE SiftUp(Swap(arr, curr, up), up, (up - 1) \div 2, key)
    ELSE arr

\* heapify_up(): the entry at the end rises.  Its first parent is curr / 2.
heapify_up(arr, n, key) ==
  IF n = 1 THEN arr ELSE SiftUp(arr, n - 1, (n - 1) \div 2, key)

\* The loop of heapify_down_i().  The left child is tried first, and the right
\* one is compared by cpu_burst_aprox whatever the policy.
RECURSIVE SiftDown(_, _, _, _, _)
SiftDown(arr, n, curr, key, aprox) ==
  LET left_child == 2 * curr + 1
      right_child == 2 * curr + 2
  IN  IF left_child < n /\ key[arr[curr]] > key[arr[left_child]]
        THEN SiftDown(Swap(arr, curr, left_child), n, left_child, key, aprox)
      ELSE IF right_child < n /\ aprox[arr[curr]] > aprox[arr[right_child]]
        THEN SiftDown(Swap(arr, curr, right_child), n, right_child, key, aprox)
      ELSE arr

heapify_down_i(arr, n, i, key, aprox) ==
  IF n = 1 THEN arr ELSE SiftDown(arr, n, i, key, aprox)

\* rearrange_heap(): heapify_down_i() from the last inner node to the root.
RECURSIVE RearrangeFrom(_, _, _, _, _)
RearrangeFrom(arr, n, i, key, aprox) ==
  IF i < 0 THEN arr
           ELSE RearrangeFrom(heapify_down_i(arr, n, i, key, aprox), n, i - 1, key, aprox)

rearrange_heap(arr, n, key, aprox) == RearrangeFrom(arr, n, n \div 2 - 1, key, aprox)

\* The array part of put(): p after the last entry, then up.
Insert(arr, n, p, key) ==
  heapify_up([i \in 0..n |-> IF i = n THEN p ELSE arr[i]], n + 1, key)

\* Mutant of RemoveRoot: the last entry stays where it was, too.
RemoveRootKeepsLast(arr, n, key, aprox) == [arr EXCEPT ![0] = arr[n-1]]

\* The array part of get(): the last entry over the first, then down.
RemoveRoot(arr, n, key, aprox) ==
  heapify_down_i([i \in 0..n-2 |-> IF i = 0 THEN arr[n-1] ELSE arr[i]], n - 1, 0, key, aprox)

\* How many entries of the array are p.
CountIn(arr, p) == Cardinality({i \in DOMAIN arr : arr[i] = p})
================================================================================
