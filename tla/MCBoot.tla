-------------------------------- MODULE MCBoot ------------------------------
(* Boot with stubs 16 bytes apart at the place linker.ld gives the kernel, *)
(* words of 16 bits, and processors without, with just and with more than  *)
(* the leaf get_max_phys_addr_bits asks for.                               *)
EXTENDS Boot

MCStub == [v \in 0 .. 31 \cup {128} |-> <<4096 + 16 * v, 32768, 65535, 65535>>]

MCProcessors ==
  { [max_leaf |-> leaf, phys |-> phys, linear |-> 48] :
      leaf \in {WidthLeaf - 4, WidthLeaf, WidthLeaf + 23}, phys \in {39, 46} }
=============================================================================
