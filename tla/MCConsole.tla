------------------------------ MODULE MCConsole ------------------------------
(* A small instance of Console for TLC: a capture and a consumer.           *)
EXTENDS Console

CONSTANTS capture, consumer, o1, o2, o3

CapturePanels == {capture}
ConsumerPanels == {consumer}
FirstObject == [p \in {consumer} |-> o1]
ThreeObjects == {o1, o2, o3}
=============================================================================
