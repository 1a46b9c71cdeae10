----------------------------- MODULE MCInscriber -----------------------------
(* One call of each kind, with a list of up to two entries.                *)
EXTENDS Inscriber

TransferTo(n) == [body |-> "transfer", node |-> n, sigs |-> {"service"}]

MCTxInputs ==
  {[network |-> TRUE, account |-> TRUE, keyType |-> "ecdsa", mirror |-> TRUE, key |-> "ecdsa",
    base64 |-> TRUE, entries |-> es, payerIsOperator |-> TRUE] :
     es \in {<<TransferTo(FALSE), TransferTo(TRUE)>>}}
  \cup
  {[network |-> TRUE, account |-> TRUE, keyType |-> kt, mirror |-> TRUE, key |-> "ed25519",
    base64 |-> TRUE, entries |-> es, payerIsOperator |-> FALSE] :
     kt \in {"unknown", "ecdsa"},
     es \in {<< >>, <<TransferTo(TRUE)>>, <<[TransferTo(TRUE) EXCEPT !.body = "other"]>>}}

Plain == [api |-> "Inscribe", input |-> "file", holder |-> TRUE, mode |-> "", metadata |-> FALSE,
          webSocket |-> "unset", connection |-> "", existingClient |-> FALSE, apiKey |-> TRUE,
          quoteOnly |-> FALSE, wait |-> "unset"]

MCRequests ==
  {Plain,
   [Plain EXCEPT !.connection = "http"],
   [Plain EXCEPT !.webSocket = "false", !.wait = "false"],
   [Plain EXCEPT !.apiKey = FALSE, !.quoteOnly = TRUE],
   [Plain EXCEPT !.mode = "hashinal"],
   [Plain EXCEPT !.api = "InscribeAndExecute"],
   [Plain EXCEPT !.api = "broker"],
   [Plain EXCEPT !.api = "broker", !.wait = "false"],
   [Plain EXCEPT !.api = "broker", !.input = "blank"]}
=============================================================================
