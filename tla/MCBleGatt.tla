------------------------------ MODULE MCBleGatt ------------------------------
(* Services of keyboards, without the attributes before the first report.       *)
EXTENDS BleGatt

\* A keyboard with an input and an output report, and a media report.
Usual == <<Val(TRUE, TRUE), Cccd, Ref, Other, Val(FALSE, FALSE), Ref,
           Other, Val(TRUE, TRUE), Cccd, Ref>>
\* Two input reports next to each other.
Adjacent == <<Val(TRUE, TRUE), Cccd, Ref, Other, Val(TRUE, TRUE), Cccd, Ref>>
\* Two input reports, the second behind the response that the first is found in.
Spaced == <<Val(TRUE, TRUE), Cccd, Ref, Other, Other, Other, Val(TRUE, TRUE), Cccd, Ref>>
\* A media report that cannot notify, as the last.
Silent == <<Val(TRUE, TRUE), Cccd, Ref, Other, Val(TRUE, FALSE), Ref>>
\* An input report without Report Reference, before an output report with one.
Unreferred == <<Val(TRUE, TRUE), Cccd, Other, Val(FALSE, FALSE), Ref>>
\* One link that is encrypted twice and loses requests; a link that comes back;
\* one that is polled for long.
Budget(l, s, e, p, k) == [links |-> l, sessions |-> s, errors |-> e, polls |-> p, keys |-> k]
MCBudgets == {Budget(1, 2, 1, 1, 1), Budget(2, 2, 0, 2, 1), Budget(1, 1, 1, 4, 1), Budget(1, 1, 2, 1, 0)}
MCLayouts == {Usual, Spaced, Adjacent, Silent, Unreferred}
=============================================================================
