-------------------------- MODULE MCPaymentPipeline --------------------------
\* Instances of PaymentPipeline for TLC.
EXTENDS PaymentPipeline, TLC

CONSTANT k1

Request(kind, target, amount) ==
    [key |-> k1, kind |-> kind, account |-> "alice", target |-> target, amount |-> amount]

\* The shop by its code, by the id of its row and by a name the legacy bank takes for it, and a
\* merchant nobody knows.
ShopCodes == [ref \in {"shop", "id-of-shop", "SHOP", "nowhere"} |->
                 IF ref = "nowhere" THEN "unknown" ELSE "shop"]
ShopIds == {"id-of-shop"}

\* One key, used for a payment, for the same payment with other references and with another
\* amount, and for transfers to two destinations.
LocalAccounts ==
    {Request("qris", ref, 1) : ref \in DOMAIN ShopCodes} \cup
    {Request("qris", "shop", 2), Request("transfer", "bob", 1), Request("transfer", "carol", 1)}

\* The same, and a customer whose account is gone.
ReusedKey == LocalAccounts \cup {[Request("qris", "shop", 1) EXCEPT !.account = "nobody"]}

\* Clients do the same things and only name merchant rows: nothing tells one from another.
ClientSymmetry == Permutations(Clients)

OnePayment == {Request("qris", "shop", 1)}
OneTransfer == {Request("transfer", "bob", 1)}
OneOfEach == OnePayment \cup OneTransfer
=============================================================================
