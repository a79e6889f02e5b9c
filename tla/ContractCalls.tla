--------------------------- MODULE ContractCalls ---------------------------
(***************************************************************************)
(* What the clients send and what the contracts take.                      *)
(*                                                                         *)
(* The host of a Soroban contract refuses an invocation whose arguments    *)
(* differ from the exported function's in number or kind, before a line of *)
(* the contract runs. Two families of clients encode those arguments by    *)
(* hand: the SDK's (reads, writes, and the deprecated builders of raw      *)
(* invocations) and the frontend's. Here each method of a client is the    *)
(* sequence of kinds it encodes, and each function of a contract the       *)
(* sequence of kinds it declares.                                          *)
(***************************************************************************)
EXTENDS Sequences

\* A table relates methods to arguments; every method in ms has args.
Takes(ms, args) == {<<m, args>> : m \in ms}

Methods(table) == {entry[1] : entry \in table}

(***************************************************************************)
(* The contracts' side: the functions the clients call.                    *)
(***************************************************************************)
RwaFunctions ==
    Takes({"total_supply", "name", "symbol", "decimals", "asset_type", "kyc_registry",
           "compliance_engine", "get_token_export", "get_external_uri"}, <<>>)
    \cup Takes({"balance", "check_kyc_status", "set_admin", "sync_kyc_status"}, <<"addr">>)
    \cup Takes({"allowance"}, <<"addr", "addr">>)
    \cup Takes({"get_compliance_metadata"}, <<"sym">>)
    \cup Takes({"set_compliance_metadata"}, <<"addr", "sym", "str", "u64">>)
    \cup Takes({"set_external_uri"}, <<"str">>)
    \cup Takes({"burn"}, <<"addr", "i128">>)
    \cup Takes({"mint", "transfer", "burn_from"}, <<"addr", "addr", "i128">>)
    \cup Takes({"transfer_from"}, <<"addr", "addr", "addr", "i128">>)
    \cup Takes({"approve"}, <<"addr", "addr", "i128", "u32">>)
    \cup Takes({"batch_transfer"}, <<"addr", "recipients">>)

EngineFunctions ==
    Takes({"get_rules", "holder_count", "blocklist_count", "tier_policy_count", "get_risk_config",
           "pause", "unpause", "activate_rules"}, <<>>)
    \cup Takes({"is_blocklisted", "is_allowlisted", "lockup_status", "add_to_blocklist", "remove_from_blocklist",
              "add_to_allowlist", "remove_from_allowlist", "register_holder", "unregister_holder"}, <<"addr">>)
    \cup Takes({"can_transfer", "evaluate_transfer"}, <<"addr", "addr", "i128">>)
    \cup Takes({"get_blocklist", "get_tier_policy", "clear_tier_policy"}, <<"u32", "u32">>)
    \cup Takes({"get_jurisdiction_risk_score", "clear_jurisdiction_risk_score"}, <<"str">>)
    \cup Takes({"evaluate_transfer_risk"}, <<"str", "str">>)
    \cup Takes({"set_rules"}, <<"rules">>)
    \cup Takes({"propose_rules"}, <<"rules", "str">>)
    \cup Takes({"set_tier_policy"}, <<"u32", "u32", "policy">>)
    \cup Takes({"set_risk_config"}, <<"risk">>)
    \cup Takes({"set_jurisdiction_risk_score"}, <<"str", "u32">>)

KycFunctions ==
    Takes({"verifier_count", "verifier_list_pub", "get_admins"}, <<>>)
    \cup Takes({"is_approved", "get_record", "get_tier"}, <<"addr">>)
    \cup Takes({"get_verifiers"}, <<"u32", "u32">>)
    \cup Takes({"approve"}, <<"addr", "addr", "u32", "u64", "str">>)
    \cup Takes({"update_tier"}, <<"addr", "addr", "u32">>)
    \cup Takes({"reject", "revoke", "add_verifier", "remove_verifier", "add_admin", "remove_admin"},
             <<"addr", "addr">>)

InvoiceFunctions ==
    Takes({"name", "symbol", "decimals", "lifecycle_paused", "pause_lifecycle", "unpause_lifecycle"}, <<>>)
    \cup Takes({"get_meta", "total_supply", "is_settled", "settle", "invoice_status", "get_journal"}, <<"str">>)
    \cup Takes({"balance"}, <<"addr", "str">>)
    \cup Takes({"allowance"}, <<"addr", "addr", "str">>)
    \cup Takes({"issue", "redeem"}, <<"str", "addr", "i128">>)
    \cup Takes({"transfer"}, <<"str", "addr", "addr", "i128">>)
    \cup Takes({"transfer_from"}, <<"addr", "str", "addr", "addr", "i128">>)
    \cup Takes({"approve"}, <<"addr", "addr", "str", "i128", "u32">>)
    \cup Takes({"update_meta"}, <<"str", "meta">>)

PropertyFunctions ==
    Takes({"get_meta", "total_shares", "name", "symbol", "decimals", "holder_count",
           "holder_slots_remaining", "dividend_deposit_count"}, <<>>)
    \cup Takes({"balance", "pending_dividend", "claim_dividend"}, <<"addr">>)
    \cup Takes({"get_dividend_history"}, <<"u32", "u32">>)
    \cup Takes({"mint"}, <<"addr", "i128">>)
    \cup Takes({"transfer"}, <<"addr", "addr", "i128">>)
    \cup Takes({"deposit_dividend"}, <<"i128", "u32">>)

CarbonFunctions ==
    Takes({"get_meta", "total_supply", "total_retired", "retirement_count", "name", "symbol",
           "decimals", "get_registry_link"}, <<>>)
    \cup Takes({"balance"}, <<"addr">>)
    \cup Takes({"get_receipt", "verify_receipt"}, <<"u32">>)
    \cup Takes({"get_receipts"}, <<"u32", "u32">>)
    \cup Takes({"get_receipts_by_retiree"}, <<"addr", "u32", "u32">>)
    \cup Takes({"mint"}, <<"addr", "i128">>)
    \cup Takes({"transfer"}, <<"addr", "addr", "i128">>)
    \cup Takes({"retire"}, <<"addr", "i128", "str", "str">>)
    \cup Takes({"update_meta"}, <<"meta">>)

(***************************************************************************)
(* The SDK's clients: reads, writes, deprecated builders.                  *)
(***************************************************************************)
RwaReads ==
    Takes({"total_supply", "name", "symbol", "decimals", "asset_type", "kyc_registry",
           "compliance_engine", "get_token_export", "get_external_uri"}, <<>>)
    \cup Takes({"balance", "check_kyc_status"}, <<"addr">>)
    \cup Takes({"allowance"}, <<"addr", "addr">>)
    \cup Takes({"get_compliance_metadata"}, <<"sym">>)

RwaWrites ==
    Takes({"mint", "burn"}, <<"addr", "i128">>)
    \cup Takes({"transfer", "burn_from"}, <<"addr", "addr", "i128">>)
    \cup Takes({"transfer_from"}, <<"addr", "addr", "addr", "i128">>)
    \cup Takes({"approve"}, <<"addr", "addr", "i128", "u32">>)
    \cup Takes({"set_admin", "sync_kyc_status"}, <<"addr">>)
    \cup Takes({"set_compliance_metadata"}, <<"sym", "str">>)
    \cup Takes({"set_external_uri"}, <<"str">>)

RwaBuilders ==
    Takes({"sync_kyc_status", "set_admin"}, <<"addr">>)
    \cup Takes({"mint", "burn"}, <<"addr", "i128">>)
    \cup Takes({"transfer", "burn_from"}, <<"addr", "addr", "i128">>)
    \cup Takes({"transfer_from"}, <<"addr", "addr", "addr", "i128">>)
    \cup Takes({"approve"}, <<"addr", "addr", "i128", "u32">>)
    \cup Takes({"set_compliance_metadata"}, <<"sym", "str">>)
    \cup Takes({"set_external_uri"}, <<"str">>)

EngineReads ==
    Takes({"get_rules", "holder_count", "blocklist_count", "tier_policy_count", "get_risk_config"}, <<>>)
    \cup Takes({"is_blocklisted", "is_allowlisted", "lockup_status"}, <<"addr">>)
    \cup Takes({"can_transfer", "evaluate_transfer"}, <<"addr", "addr", "i128">>)
    \cup Takes({"get_blocklist", "get_tier_policy"}, <<"u32", "u32">>)
    \cup Takes({"get_jurisdiction_risk_score"}, <<"str">>)
    \cup Takes({"evaluate_transfer_risk"}, <<"str", "str">>)

EngineWrites ==
    Takes({"set_rules"}, <<"rules">>)
    \cup Takes({"add_to_blocklist", "remove_from_blocklist", "add_to_allowlist", "remove_from_allowlist",
              "register_holder", "unregister_holder"}, <<"addr">>)
    \cup Takes({"pause", "unpause"}, <<>>)

EnginePolicyWrites ==
    Takes({"set_tier_policy"}, <<"u32", "u32", "policy">>)
    \cup Takes({"clear_tier_policy"}, <<"u32", "u32">>)
    \cup Takes({"set_risk_config"}, <<"risk">>)
    \cup Takes({"set_jurisdiction_risk_score"}, <<"str", "u32">>)
    \cup Takes({"clear_jurisdiction_risk_score"}, <<"str">>)

EngineBuilders ==
    Takes({"set_rules"}, <<"rules">>)
    \cup Takes({"add_to_blocklist", "remove_from_blocklist"}, <<"addr">>)
    \cup Takes({"pause", "unpause"}, <<>>)
    \cup Takes({"set_tier_policy"}, <<"u32", "u32", "policy">>)
    \cup Takes({"clear_tier_policy"}, <<"u32", "u32">>)
    \cup Takes({"set_risk_config"}, <<"risk">>)
    \cup Takes({"set_jurisdiction_risk_score"}, <<"str", "u32">>)
    \cup Takes({"clear_jurisdiction_risk_score"}, <<"str">>)

KycReads ==
    Takes({"is_approved", "get_record", "get_tier"}, <<"addr">>)
    \cup Takes({"verifier_count", "verifier_list_pub", "get_admins"}, <<>>)
    \cup Takes({"get_verifiers"}, <<"u32", "u32">>)

VerifierWrites ==
    Takes({"approve"}, <<"addr", "addr", "u32", "u64", "str">>)
    \cup Takes({"reject", "revoke"}, <<"addr", "addr">>)
    \cup Takes({"update_tier"}, <<"addr", "addr", "u32">>)

\* Officers named without the admin who acts, as the deprecated builders still do.
AdminWrites_NoCaller == Takes({"add_verifier", "remove_verifier", "add_admin", "remove_admin"}, <<"addr">>)

AdminWrites == Takes({"add_verifier", "remove_verifier", "add_admin", "remove_admin"}, <<"addr", "addr">>)

KycWrites == VerifierWrites \cup AdminWrites

KycBuilders ==
    Takes({"approve"}, <<"addr", "addr", "u32", "u64", "str">>)
    \cup Takes({"add_verifier", "remove_verifier"}, <<"addr">>)
    \cup Takes({"revoke", "reject"}, <<"addr", "addr">>)

InvoiceReads ==
    Takes({"get_meta", "total_supply", "is_settled", "name", "symbol", "decimals"}, <<>>)
    \cup Takes({"balance"}, <<"addr">>)
    \cup Takes({"allowance"}, <<"addr", "addr">>)

InvoiceWrites ==
    Takes({"issue", "redeem"}, <<"addr", "i128">>)
    \cup Takes({"settle"}, <<>>)
    \cup Takes({"transfer"}, <<"addr", "addr", "i128">>)
    \cup Takes({"transfer_from"}, <<"addr", "addr", "addr", "i128">>)
    \cup Takes({"approve"}, <<"addr", "addr", "i128", "u32">>)
    \cup Takes({"update_meta"}, <<"meta">>)

InvoiceBuilders ==
    Takes({"issue", "redeem"}, <<"addr", "i128">>)
    \cup Takes({"settle"}, <<>>)
    \cup Takes({"transfer"}, <<"addr", "addr", "i128">>)
    \cup Takes({"transfer_from"}, <<"addr", "addr", "addr", "i128">>)
    \cup Takes({"approve"}, <<"addr", "addr", "i128", "u32">>)
    \cup Takes({"update_meta"}, <<"meta">>)

PropertyReads ==
    Takes({"get_meta", "total_shares", "name", "symbol", "decimals"}, <<>>)
    \cup Takes({"balance", "pending_dividend"}, <<"addr">>)

PropertyWrites ==
    Takes({"mint"}, <<"addr", "i128">>)
    \cup Takes({"transfer"}, <<"addr", "addr", "i128">>)
    \cup Takes({"deposit_dividend"}, <<"i128", "u32">>)
    \cup Takes({"claim_dividend"}, <<"addr">>)

PropertyBuilders ==
    Takes({"mint"}, <<"addr", "i128">>)
    \cup Takes({"transfer"}, <<"addr", "addr", "i128">>)
    \cup Takes({"deposit_dividend"}, <<"i128">>)
    \cup Takes({"claim_dividend"}, <<"addr">>)

CarbonReads ==
    Takes({"get_meta", "total_supply", "total_retired", "retirement_count", "name", "symbol", "decimals"}, <<>>)
    \cup Takes({"balance"}, <<"addr">>)
    \cup Takes({"get_receipt"}, <<"u32">>)
    \cup Takes({"get_receipts"}, <<"u32", "u32">>)

CarbonWrites ==
    Takes({"mint"}, <<"addr", "i128">>)
    \cup Takes({"transfer"}, <<"addr", "addr", "i128">>)
    \cup Takes({"retire"}, <<"addr", "i128", "str", "str">>)
    \cup Takes({"update_meta"}, <<"meta">>)

CarbonBuilders == CarbonWrites

(***************************************************************************)
(* The frontend's clients.                                                 *)
(***************************************************************************)
WebRwa ==
    Takes({"asset_type", "kyc_registry", "compliance_engine", "get_token_export", "get_external_uri"}, <<>>)
    \cup Takes({"get_compliance_metadata"}, <<"sym">>)
    \cup Takes({"check_kyc_status"}, <<"addr">>)

WebRwaWrites ==
    Takes({"sync_kyc_status"}, <<"addr">>)
    \cup Takes({"set_external_uri"}, <<"str">>)
    \cup Takes({"batch_transfer"}, <<"addr", "recipients">>)

WebEngineReads ==
    Takes({"get_rules", "holder_count", "blocklist_count", "get_pending_rules", "get_pending_activate_at",
           "get_rule_change_delay"}, <<>>)
    \cup Takes({"is_blocklisted", "lockup_status"}, <<"addr">>)
    \cup Takes({"can_transfer", "evaluate_transfer"}, <<"addr", "addr", "i128">>)
    \cup Takes({"get_blocklist"}, <<"u32", "u32">>)

WebRuleWrites ==
    Takes({"set_rules", "propose_rules"}, <<"rules">>)
    \cup Takes({"activate_rules", "pause", "unpause"}, <<>>)
    \cup Takes({"add_to_blocklist", "remove_from_blocklist"}, <<"addr">>)

WebListWrites ==
    Takes({"register_holder", "unregister_holder", "is_allowlisted", "add_to_allowlist",
           "remove_from_allowlist"}, <<"addr">>)
    \cup Takes({"record_attestation"}, <<"addr", "str", "str", "str", "str", "u64", "str">>)

WebPolicies ==
    Takes({"get_tier_policy", "clear_tier_policy"}, <<"u32", "u32">>)
    \cup Takes({"tier_policy_count"}, <<>>)
    \cup Takes({"set_tier_policy"}, <<"u32", "u32", "policy">>)

WebRisk ==
    Takes({"get_risk_config"}, <<>>)
    \cup Takes({"get_jurisdiction_risk_score", "clear_jurisdiction_risk_score"}, <<"str">>)
    \cup Takes({"evaluate_transfer_risk"}, <<"str", "str">>)
    \cup Takes({"set_risk_config"}, <<"risk">>)
    \cup Takes({"get_attestations"}, <<"addr">>)
    \cup Takes({"set_jurisdiction_risk_score"}, <<"str", "u32">>)

WebKycReads ==
    Takes({"is_approved", "get_record", "get_tier"}, <<"addr">>)
    \cup Takes({"verifier_count", "verifier_list_pub"}, <<>>)
    \cup Takes({"get_verifiers"}, <<"u32", "u32">>)

WebKycWrites ==
    Takes({"approve"}, <<"addr", "addr", "u32", "u64", "str">>)
    \cup Takes({"reject", "revoke", "add_verifier", "remove_verifier", "add_admin", "remove_admin"},
             <<"addr", "addr">>)
    \cup Takes({"update_tier"}, <<"addr", "addr", "u32">>)

WebInvoiceReads ==
    Takes({"get_meta", "name", "symbol", "decimals", "total_supply", "is_settled", "lifecycle_paused",
           "pause_lifecycle", "unpause_lifecycle"}, <<>>)
    \cup Takes({"balance"}, <<"addr">>)
    \cup Takes({"invoice_status", "get_journal"}, <<"str">>)
    \cup Takes({"allowance"}, <<"addr", "addr">>)

WebInvoiceWrites ==
    Takes({"issue", "redeem"}, <<"addr", "i128">>)
    \cup Takes({"settle"}, <<>>)
    \cup Takes({"transfer"}, <<"addr", "addr", "i128">>)
    \cup Takes({"transfer_from"}, <<"addr", "addr", "addr", "i128">>)
    \cup Takes({"approve"}, <<"addr", "addr", "i128", "u32">>)

WebPropertyReads ==
    Takes({"get_meta", "name", "symbol", "decimals", "total_shares", "holder_count",
           "holder_slots_remaining", "dividend_deposit_count"}, <<>>)
    \cup Takes({"balance", "pending_dividend"}, <<"addr">>)
    \cup Takes({"get_dividend_history"}, <<"u32", "u32">>)

WebPropertyWrites ==
    Takes({"mint"}, <<"addr", "i128">>)
    \cup Takes({"transfer"}, <<"addr", "addr", "i128">>)
    \cup Takes({"deposit_dividend"}, <<"i128", "u32">>)
    \cup Takes({"claim_dividend"}, <<"addr">>)

WebCarbonReads ==
    Takes({"get_meta", "name", "symbol", "decimals", "total_supply", "total_retired", "retirement_count",
           "get_registry_link"}, <<>>)
    \cup Takes({"balance"}, <<"addr">>)
    \cup Takes({"get_receipt", "verify_receipt"}, <<"u32">>)
    \cup Takes({"get_receipts"}, <<"u32", "u32">>)
    \cup Takes({"get_receipts_by_retiree"}, <<"addr", "u32", "u32">>)

WebCarbonWrites ==
    Takes({"mint"}, <<"addr", "i128">>)
    \cup Takes({"transfer"}, <<"addr", "addr", "i128">>)
    \cup Takes({"retire"}, <<"addr", "i128", "str", "str">>)

(***************************************************************************)
(* What the host makes of a call.                                          *)
(***************************************************************************)
Functions == [rwa |-> RwaFunctions, compliance |-> EngineFunctions, kyc |-> KycFunctions,
              invoice |-> InvoiceFunctions, property |-> PropertyFunctions, carbon |-> CarbonFunctions]

Contracts == DOMAIN Functions

SdkCalls == [rwa |-> RwaReads \cup RwaWrites, compliance |-> EngineReads \cup EngineWrites \cup EnginePolicyWrites,
             kyc |-> KycReads \cup KycWrites, invoice |-> InvoiceReads \cup InvoiceWrites,
             property |-> PropertyReads \cup PropertyWrites, carbon |-> CarbonReads \cup CarbonWrites]

Builders == [rwa |-> RwaBuilders, compliance |-> EngineBuilders, kyc |-> KycBuilders,
             invoice |-> InvoiceBuilders, property |-> PropertyBuilders, carbon |-> CarbonBuilders]

WebCalls == [rwa |-> WebRwa \cup WebRwaWrites,
             compliance |-> WebEngineReads \cup WebRuleWrites \cup WebListWrites \cup WebPolicies \cup WebRisk,
             kyc |-> WebKycReads \cup WebKycWrites, invoice |-> WebInvoiceReads \cup WebInvoiceWrites,
             property |-> WebPropertyReads \cup WebPropertyWrites,
             carbon |-> WebCarbonReads \cup WebCarbonWrites]

Families == [sdk |-> SdkCalls, builder |-> Builders, web |-> WebCalls]

\* The function exists and takes exactly what method m of client family f encodes for contract k.
Decodes(f, k, m) == m \in Methods(Functions[k] \cap Families[f][k])

\* The calls no contract can run as the clients build them: the invoice clients name no invoice, a mint and a
\* metadata update of the base token lack their operator, two builders fell behind, and the frontend asks the
\* engine for functions under names it does not export.
Unanswerable ==
    [sdk |-> [rwa |-> {"mint", "set_compliance_metadata"}, compliance |-> {}, kyc |-> {},
              invoice |-> Methods(InvoiceReads \cup InvoiceWrites) \ {"name", "symbol", "decimals"},
              property |-> {}, carbon |-> {}],
     builder |-> [rwa |-> {"mint", "set_compliance_metadata"}, compliance |-> {},
                  kyc |-> {"add_verifier", "remove_verifier"}, invoice |-> Methods(InvoiceBuilders),
                  property |-> {"deposit_dividend"}, carbon |-> {}],
     web |-> [rwa |-> {}, kyc |-> {}, property |-> {}, carbon |-> {},
              compliance |-> {"propose_rules", "record_attestation", "get_attestations", "get_pending_rules",
                              "get_pending_activate_at", "get_rule_change_delay"},
              invoice |-> {"get_meta", "total_supply", "is_settled", "balance", "allowance"}
                          \cup Methods(WebInvoiceWrites)]]
=============================================================================
