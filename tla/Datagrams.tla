------------------------------ MODULE Datagrams ------------------------------
(* The datagrams that the endpoint's modules speak of, and their bounds.   *)
EXTENDS Naturals, Sequences

CONSTANTS
  Contents,     \* what a datagram can say
  Sizes,        \* the sizes, in bytes, it can have
  k_max_size,   \* datagram_t::k_max_size, the size of the receiver's buffer
  MaxInbox,     \* how many datagrams the socket's buffer holds; more are lost
  MaxArrivals   \* bound: past it nothing arrives

ASSUME SizesAreNatural == Sizes \subseteq Nat /\ k_max_size \in Nat

ASSUME BoundsAreNatural == MaxInbox \in Nat /\ MaxArrivals \in Nat

Datagram == [content : Contents, size : Sizes]

\* datagram_t
Received == [content : Contents, size : 0..k_max_size]
=============================================================================
