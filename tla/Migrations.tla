------------------------------ MODULE Migrations ------------------------------
(***************************************************************************)
(* The schema revisions of alembic/versions, each a step up and a step     *)
(* down between two schemas, and the rows whose contents they rewrite.     *)
(*                                                                         *)
(* A schema is a set of parts: columns (nullable, required, or NOT NULL    *)
(* with a server default), unique keys, indexes, references and checks.    *)
(* Column types, lengths and the names of constraints are left out.  A     *)
(* step drops whole tables and parts and adds parts; it fails, and its     *)
(* transaction is rolled back, when it drops what is not there, adds what  *)
(* is, or leaves a row that breaks a check.                                *)
(***************************************************************************)
EXTENDS Naturals, Sequences, FiniteSets

CONSTANT None  \* no row

VARIABLES
    revision,  \* how many revisions the database is past, alembic_version
    schema,    \* the parts of the database's schema
    notice,    \* a row of user_notifications
    receipt,   \* a row of receipts, with the meaning of its category
    files,     \* a row of files
    device,    \* a row of user_push_tokens: what its value is
    context    \* the context of a row of promotions

rows == <<notice, receipt, files, device, context>>
vars == <<revision, schema, rows>>

-----------------------------------------------------------------------------
(* Parts and steps *)

Columns(t, cs, kind) == {<<t, {c}, kind>> : c \in cs}
Table(t, required, default, nullable) ==
    Columns(t, required, "required") \cup Columns(t, default, "default")
        \cup Columns(t, nullable, "nullable")
Stamps == {"created_at", "updated_at"}
Unique(t, cs) == <<t, cs, "unique">>
Index(t, cs) == <<t, cs, "index">>
Refers(t, c, to) == <<t, {c, to}, "references">>
Checks(t, cs) == Columns(t, cs, "check")

\* op.drop_table, op.drop_column / drop_index / drop_constraint, and op.create_*.
Step(tables, parts, added) == [tables |-> tables, parts |-> parts, added |-> added]

\* A column is dropped whatever its kind.
ColumnKinds == {"required", "default", "nullable"}
Same(p, q) ==
    /\ p[1] = q[1] /\ p[2] = q[2]
    /\ p[3] = q[3] \/ {p[3], q[3]} \subseteq ColumnKinds

Dropped(s, step) ==
    {p \in s : p[1] \in step.tables \/ \E q \in step.parts : Same(p, q)}
Apply(s, step) == (s \ Dropped(s, step)) \cup step.added
Fits(s, step) ==
    /\ step.tables \subseteq {p[1] : p \in s}
    /\ ~ \E q \in step.parts : \A p \in s : ~Same(p, q)
    /\ ~ \E p \in s \ Dropped(s, step), q \in step.added : Same(p, q)

-----------------------------------------------------------------------------
(* The revisions, oldest first *)

R0001 == [
    up |-> Step({}, {},
        Table("users", {"id"}, Stamps, {"name", "nickname", "email"})
        \cup Table("user_credentials", {"id", "user_id"}, {"role"} \cup Stamps,
                   {"last_login_at"})
        \cup Table("external_identities",
                   {"id", "credentials_id", "issuer", "subject", "provider"}, Stamps, {})
        \cup Table("refresh_tokens", {"id", "credentials_id", "token_hash", "expires_at"},
                   {"created_at"}, {})
        \cup {Unique("user_credentials", {"user_id"}),
              Refers("external_identities", "credentials_id", "user_credentials"),
              Unique("external_identities", {"credentials_id", "issuer"}),
              Unique("external_identities", {"issuer", "subject"}),
              Refers("refresh_tokens", "credentials_id", "user_credentials"),
              Unique("refresh_tokens", {"token_hash"})}),
    down |-> Step({"refresh_tokens", "external_identities", "user_credentials", "users"},
                  {}, {})]

Entitlements ==
    Table("user_entitlements", {"user_id"}, {"free_analysis_tokens_remaining"} \cup Stamps, {})
    \cup Checks("user_entitlements", {"free_analysis_tokens_remaining >= 0"})
    \cup {Refers("user_entitlements", "user_id", "users")}
DeviceTokens ==
    Table("user_push_tokens", {"id", "user_id", "device_id", "fcm_token", "platform"}, Stamps, {})
    \cup {Refers("user_push_tokens", "user_id", "users"),
          Unique("user_push_tokens", {"fcm_token"}),
          Unique("user_push_tokens", {"user_id", "device_id"})}
NormalizedEmail ==
    Columns("users", {"normalized_email"}, "nullable")
    \cup {Unique("users", {"normalized_email"})}
ConsentColumns ==
    Table("user_settings", {}, {"notification_enabled", "marketing_consent"},
          {"marketing_consent_updated_at"})

R0002 == LET
    sessions == {Refers("refresh_tokens", "session_id", "auth_sessions")}
        \cup Columns("refresh_tokens", {"session_id"}, "nullable")
    profile == Columns("users", {"profile_image_url"}, "nullable")
    identity == Table("external_identities", {}, {"email_verified"},
                      {"email", "normalized_email"})
    IN [
    up |-> Step({}, {},
        NormalizedEmail \cup profile \cup identity \cup sessions
        \cup Table("auth_sessions", {"id", "credentials_id"}, Stamps, {"revoked_at"})
        \cup {Refers("auth_sessions", "credentials_id", "user_credentials")}
        \cup Table("user_settings", {"user_id"}, Stamps,
                   {"terms_version", "privacy_version", "terms_accepted_at",
                    "privacy_accepted_at"})
        \cup ConsentColumns
        \cup {Refers("user_settings", "user_id", "users")}
        \cup Entitlements \cup DeviceTokens),
    down |-> Step({"user_push_tokens", "user_entitlements", "user_settings", "auth_sessions"},
                  sessions \cup identity \cup NormalizedEmail \cup profile, {})]

R0003 == [up |-> Step({}, NormalizedEmail, {}), down |-> Step({}, {}, NormalizedEmail)]

R0004 == LET index == {Index("external_identities", {"normalized_email"})} IN
    [up |-> Step({}, {}, index), down |-> Step({}, index, {})]

R0005 == [
    up |-> Step({}, {},
        Table("receipts", {"id", "user_id", "item_name", "payment_date", "expires_on"},
              {"period_months", "requires_physical_receipt"} \cup Stamps,
              {"brand_name", "payment_location", "total_amount", "category", "memo"})
        \cup Checks("receipts", {"period_months BETWEEN 1 AND 60", "total_amount >= 0"})
        \cup Table("receipt_attachments", {"id", "receipt_id", "file_id"}, {"created_at"}, {})
        \cup {Index("receipts", {"user_id"}),
              Refers("receipt_attachments", "receipt_id", "receipts"),
              Unique("receipt_attachments", {"receipt_id", "file_id"})}),
    down |-> Step({"receipt_attachments", "receipts"}, {}, {})]

R0006 == [
    up |-> Step({}, {},
        Table("files", {"id", "user_id", "original_name", "purpose", "status"}, Stamps, {})
        \cup Table("file_objects",
                   {"id", "file_id", "variant_type", "storage_backend", "storage_key",
                    "content_type", "size"}, Stamps, {"checksum"})
        \cup {Index("files", {"user_id", "created_at"}),
              Refers("file_objects", "file_id", "files"),
              Unique("file_objects", {"storage_key"}),
              Unique("file_objects", {"file_id", "variant_type"})}),
    down |-> Step({"file_objects", "files"}, {}, {})]

\* The step down restores the columns with defaults, which they had not before.
R0007 == LET
    columns(nullability) ==
        Columns("files", {"purpose", "status"}, nullability)
        \cup Columns("file_objects", {"storage_backend"}, nullability)
        \cup Columns("files", {"updated_at"}, "default")
        \cup Columns("file_objects", {"updated_at"}, "default")
    IN [up |-> Step({}, columns("required"), {}), down |-> Step({}, {}, columns("default"))]

R0008 == [
    up |-> Step({"user_push_tokens", "user_entitlements"}, ConsentColumns, {}),
    down |-> Step({}, {}, ConsentColumns \cup Entitlements \cup DeviceTokens)]

R0009 == [
    up |-> Step({}, {},
        Table("user_notifications", {"id", "user_id", "kind", "message", "target_type"},
              {"created_at"}, {"target_id", "read_at"})
        \cup Table("notification_settings", {"user_id"},
                   {"push_enabled", "marketing_consent"} \cup Stamps, {})
        \cup {Index("user_notifications", {"user_id"}),
              Index("user_notifications", {"user_id", "created_at", "id"})}),
    down |-> Step({"notification_settings", "user_notifications"}, {}, {})]

R0010 == LET column == Columns("receipts", {"sub_category"}, "nullable") IN
    [up |-> Step({}, {}, column), down |-> Step({}, column, {})]

R0011 == [
    up |-> Step({}, {},
        Table("user_credits", {"user_id", "feature_key"},
              {"total_granted_count", "used_count", "remaining_count"} \cup Stamps, {})
        \cup Checks("user_credits",
                    {"feature_key", "total_granted_count >= 0", "used_count >= 0",
                     "remaining_count >= 0", "total = used + remaining"})
        \cup Table("credit_transactions",
                   {"id", "user_id", "feature_key", "reason", "action", "amount"},
                   {"created_at"}, {})
        \cup Checks("credit_transactions",
                    {"feature_key", "reason", "action", "reason with action", "amount > 0"})
        \cup {Index("credit_transactions", {"user_id", "feature_key", "created_at", "id"})}),
    down |-> Step({"credit_transactions", "user_credits"}, {}, {})]

\* The second revision numbered 0011, which follows the first.
R0011b == LET column == Columns("receipts", {"serial_number"}, "nullable") IN
    [up |-> Step({}, {}, column), down |-> Step({}, column, {})]

R0012 == [
    up |-> Step({}, {},
        Table("user_push_tokens", {"id", "user_id", "fid", "platform"}, Stamps, {})
        \cup {Unique("user_push_tokens", {"fid"}), Index("user_push_tokens", {"user_id"})}),
    down |-> Step({"user_push_tokens"}, {}, {})]

R0013 == LET
    old == Table("user_notifications", {"target_type"}, {}, {"target_id"})
    new == Table("user_notifications", {"message_type", "title"}, {"metadata"},
                 {"resource_type", "resource_id"})
           \cup Checks("user_notifications", {"message_type", "resource pair"})
    IN [up |-> Step({}, old, new), down |-> Step({}, new, old)]

R0014 == LET
    value(c) == Columns("user_push_tokens", {c}, "required")
                \cup {Unique("user_push_tokens", {c})}
    IN [up |-> Step({}, value("fid"), value("token")),
        down |-> Step({}, value("token"), value("fid"))]

R0015 == [
    up |-> Step({}, {},
        Table("outbox_events", {"id", "event_id", "event_type", "occurred_at"},
              {"payload", "retry_count"}, {})
        \cup {Unique("outbox_events", {"event_id"})}),
    down |-> Step({"outbox_events"}, {}, {})]

R0016 == [
    up |-> Step({}, {},
        Table("promotions", {"id", "name", "starts_at", "benefit_feature_key", "benefit_amount"},
              {"active", "times_redeemed", "max_redemptions_per_user"} \cup Stamps,
              {"expires_at", "max_redemptions"})
        \cup Checks("promotions",
                    {"benefit_feature_key", "benefit_amount > 0", "max_redemptions > 0",
                     "times_redeemed >= 0", "max_redemptions_per_user > 0"})
        \cup Table("promotion_codes", {"id", "promotion_id", "code"},
                   {"active", "times_redeemed"} \cup Stamps,
                   {"starts_at", "expires_at", "max_redemptions"})
        \cup Checks("promotion_codes", {"max_redemptions > 0", "times_redeemed >= 0"})
        \cup Table("promotion_redemptions",
                   {"id", "promotion_id", "user_id", "status", "idempotency_key"}, Stamps,
                   {"promotion_code_id", "failure_reason", "redeemed_at"})
        \cup Checks("promotion_redemptions", {"status"})
        \cup {Refers("promotion_codes", "promotion_id", "promotions"),
              Unique("promotion_codes", {"lower(code)"}),
              Refers("promotion_redemptions", "promotion_code_id", "promotion_codes"),
              Refers("promotion_redemptions", "promotion_id", "promotions"),
              Unique("promotion_redemptions", {"idempotency_key"})}),
    down |-> Step({"promotion_redemptions", "promotion_codes", "promotions"}, {}, {})]

\* Mutant: the key that makes a grant idempotent is not unique.
R0017WithoutKey == LET
    source == Columns("user_credits", {"current_period"}, "nullable")
        \cup Columns("credit_transactions", {"source_type", "source_id", "idempotency_key"},
                     "nullable")
        \cup Checks("credit_transactions", {"source_type", "source pair"})
        \cup {Unique("credit_transactions",
                     {"source_type", "source_id", "user_id", "feature_key", "action"})}
    IN [up |-> Step({}, {}, source), down |-> Step({}, source, {})]

R0017 == LET
    source == Columns("user_credits", {"current_period"}, "nullable")
        \cup Columns("credit_transactions", {"source_type", "source_id", "idempotency_key"},
                     "nullable")
        \cup Checks("credit_transactions", {"source_type", "source pair"})
        \cup {Unique("credit_transactions", {"idempotency_key"}),
              Unique("credit_transactions",
                     {"source_type", "source_id", "user_id", "feature_key", "action"})}
    IN [up |-> Step({}, {}, source), down |-> Step({}, source, {})]

R0018 == [
    up |-> Step({}, {},
        Table("promotion_contents", {"id", "promotion_id"}, Stamps, {"banner_image_url"})
        \cup {Refers("promotion_contents", "promotion_id", "promotions"),
              Unique("promotion_contents", {"promotion_id"})}),
    down |-> Step({"promotion_contents"}, {}, {})]

R0019 == LET
    in_context == Columns("promotions", {"context"}, "nullable")
        \cup Checks("promotions", {"context IN recharge"})
        \cup {Index("promotions", {"benefit_feature_key", "context", "active", "expires_at",
                                   "starts_at"}),
              Unique("promotions", {"benefit_feature_key", "context", "starts_at"})}
    IN [up |-> Step({}, {}, in_context), down |-> Step({}, in_context, {})]

R0020 == [
    up |-> Step({}, {},
        Table("notification_schedule_rules",
              {"campaign_key", "target_kind", "send_time_local", "title_template",
               "body_template"},
              {"enabled", "requires_marketing_consent"} \cup Stamps,
              {"day_offset", "first_delay_days", "repeat_interval_days", "lookback_days"})
        \cup Checks("notification_schedule_rules",
                    {"campaign_key", "target_kind", "day_offset", "first_delay_days",
                     "repeat_interval_days", "lookback_days", "warranty_timing",
                     "engagement_timing", "engagement_consent"})),
    down |-> Step({"notification_schedule_rules"}, {}, {})]

R0021 == [
    up |-> Step({}, {},
        Table("notification_schedule_occurrences",
              {"campaign_key", "target_type", "target_id", "occurrence_on"},
              {"created_at"}, {"notification_id"})
        \cup Checks("notification_schedule_occurrences", {"campaign_key", "target_type"})),
    down |-> Step({"notification_schedule_occurrences"}, {}, {})]

R0022 == LET
    indexes == {Index("users", {"created_at", "id"}), Index("receipts", {"expires_on", "id"})}
    IN [up |-> Step({}, {}, indexes), down |-> Step({}, indexes, {})]

R0023 == LET enum == Checks("receipts", {"category IN receipt_category"}) IN
    [up |-> Step({}, {}, enum), down |-> Step({}, enum, {})]

R0024 == LET
    before == Checks("promotions", {"context IN recharge"})
    after == Checks("promotions", {"context IN recharge, signup"})
    key == Columns("promotion_redemptions", {"beneficiary_key"}, "nullable")
           \cup {Unique("promotion_redemptions", {"promotion_id", "beneficiary_key"})}
    IN [up |-> Step({}, before, after \cup key), down |-> Step({}, after \cup key, before)]

R0025 == LET
    category == Columns("user_notifications", {"category"}, "default")
        \cup Checks("user_notifications", {"category"})
    IN [up |-> Step({}, {}, category), down |-> Step({}, category, {})]

\* Mutant: the step down forgets to restore the shorter range.
R0026DownUnchanged == LET
    before == Checks("receipts", {"period_months BETWEEN 1 AND 60"})
    after == Checks("receipts", {"period_months BETWEEN 1 AND 120"})
    IN [up |-> Step({}, before, after), down |-> Step({}, after, {})]

R0026 == LET
    before == Checks("receipts", {"period_months BETWEEN 1 AND 60"})
    after == Checks("receipts", {"period_months BETWEEN 1 AND 120"})
    IN [up |-> Step({}, before, after), down |-> Step({}, after, before)]

\* The chain of the down_revision links.
Revisions == <<R0001, R0002, R0003, R0004, R0005, R0006, R0007, R0008, R0009, R0010,
               R0011, R0011b, R0012, R0013, R0014, R0015, R0016, R0017, R0018, R0019,
               R0020, R0021, R0022, R0023, R0024, R0025, R0026>>
Latest == Len(Revisions)

-----------------------------------------------------------------------------
(* What the mapped classes expect *)

\* TimestampMixin is written out in every class: created_at and updated_at.
Mapped(t, required, default, nullable) == Table(t, required, default \cup Stamps, nullable)

UsersOrm ==
    Mapped("users", {"id"}, {}, {"name", "nickname", "email", "profile_image_url"})
    \cup Mapped("user_settings", {"user_id"}, {},
                {"terms_version", "privacy_version", "terms_accepted_at", "privacy_accepted_at"})
    \cup {Index("users", {"created_at", "id"}), Refers("user_settings", "user_id", "users")}

AuthOrm ==
    Mapped("user_credentials", {"id", "user_id"}, {"role"}, {"last_login_at"})
    \cup Mapped("external_identities",
                {"id", "credentials_id", "issuer", "subject", "provider"}, {"email_verified"},
                {"email", "normalized_email"})
    \cup Mapped("auth_sessions", {"id", "credentials_id"}, {}, {"revoked_at"})
    \cup Table("refresh_tokens", {"id", "credentials_id", "token_hash", "expires_at"},
               {"created_at"}, {"session_id"})
    \cup {Unique("user_credentials", {"user_id"}),
          Unique("external_identities", {"issuer", "subject"}),
          Unique("external_identities", {"credentials_id", "issuer"}),
          Index("external_identities", {"normalized_email"}),
          Unique("refresh_tokens", {"token_hash"}),
          Refers("refresh_tokens", "session_id", "auth_sessions")}
    \cup {Refers(t, "credentials_id", "user_credentials") :
              t \in {"external_identities", "auth_sessions", "refresh_tokens"}}

ReceiptsOrm ==
    Mapped("receipts", {"id", "user_id", "item_name", "payment_date", "expires_on"},
           {"period_months", "requires_physical_receipt"},
           {"brand_name", "serial_number", "payment_location", "total_amount", "category",
            "sub_category", "memo"})
    \cup Table("receipt_attachments", {"id", "receipt_id", "file_id"}, {"created_at"}, {})
    \cup Checks("receipts", {"period_months BETWEEN 1 AND 120", "total_amount >= 0",
                             "category IN receipt_category"})
    \cup {Index("receipts", {"expires_on", "id"}), Index("receipts", {"user_id"}),
          Refers("receipt_attachments", "receipt_id", "receipts"),
          Unique("receipt_attachments", {"receipt_id", "file_id"})}

FilesOrm ==
    Table("files", {"id", "user_id", "original_name"}, {"created_at"}, {})
    \cup Table("file_objects",
               {"id", "file_id", "variant_type", "storage_key", "content_type", "size"},
               {"created_at"}, {"checksum"})
    \cup {Index("files", {"user_id", "created_at"}),
          Refers("file_objects", "file_id", "files"),
          Unique("file_objects", {"storage_key"}),
          Unique("file_objects", {"file_id", "variant_type"})}

NotificationsOrm ==
    Table("user_notifications", {"id", "user_id", "message_type", "kind", "title", "message"},
          {"category", "metadata", "created_at"}, {"resource_type", "resource_id", "read_at"})
    \cup Checks("user_notifications", {"message_type", "category", "resource pair"})
    \cup Mapped("notification_settings", {"user_id"}, {"push_enabled", "marketing_consent"}, {})
    \cup Mapped("user_push_tokens", {"id", "user_id", "token", "platform"}, {}, {})
    \cup {Index("user_notifications", {"user_id"}),
          Index("user_notifications", {"user_id", "created_at", "id"}),
          Unique("user_push_tokens", {"token"}), Index("user_push_tokens", {"user_id"})}

ScheduleOrm ==
    Mapped("notification_schedule_rules",
           {"campaign_key", "target_kind", "send_time_local", "title_template", "body_template"},
           {"enabled", "requires_marketing_consent"},
           {"day_offset", "first_delay_days", "repeat_interval_days", "lookback_days"})
    \cup Checks("notification_schedule_rules",
                {"campaign_key", "target_kind", "day_offset", "first_delay_days",
                 "repeat_interval_days", "lookback_days", "warranty_timing",
                 "engagement_timing", "engagement_consent"})
    \cup Table("notification_schedule_occurrences",
               {"campaign_key", "target_type", "target_id", "occurrence_on"},
               {"created_at"}, {"notification_id"})
    \cup Checks("notification_schedule_occurrences", {"campaign_key", "target_type"})

PromotionsOrm ==
    Mapped("promotions", {"id", "name", "starts_at", "benefit_feature_key", "benefit_amount"},
           {"active", "times_redeemed", "max_redemptions_per_user"},
           {"expires_at", "max_redemptions", "context"})
    \cup Checks("promotions",
                {"benefit_feature_key", "context IN recharge, signup", "benefit_amount > 0",
                 "max_redemptions > 0", "times_redeemed >= 0", "max_redemptions_per_user > 0"})
    \cup Mapped("promotion_contents", {"id", "promotion_id"}, {}, {"banner_image_url"})
    \cup Mapped("promotion_codes", {"id", "promotion_id", "code"}, {"active", "times_redeemed"},
                {"starts_at", "expires_at", "max_redemptions"})
    \cup Checks("promotion_codes", {"max_redemptions > 0", "times_redeemed >= 0"})
    \cup {Refers(t, "promotion_id", "promotions") :
              t \in {"promotion_contents", "promotion_codes", "promotion_redemptions"}}
    \cup {Index("promotions",
                {"benefit_feature_key", "context", "active", "expires_at", "starts_at"}),
          Unique("promotions", {"benefit_feature_key", "context", "starts_at"}),
          Unique("promotion_contents", {"promotion_id"}),
          Unique("promotion_codes", {"lower(code)"})}

RedemptionsOrm ==
    Mapped("promotion_redemptions", {"id", "promotion_id", "user_id", "status", "idempotency_key"},
           {}, {"promotion_code_id", "beneficiary_key", "failure_reason", "redeemed_at"})
    \cup Checks("promotion_redemptions", {"status"})
    \cup {Refers("promotion_redemptions", "promotion_code_id", "promotion_codes"),
          Unique("promotion_redemptions", {"idempotency_key"}),
          Unique("promotion_redemptions", {"promotion_id", "beneficiary_key"})}

CreditsOrm ==
    Mapped("user_credits", {"user_id", "feature_key"},
           {"total_granted_count", "used_count", "remaining_count"}, {"current_period"})
    \cup Checks("user_credits", {"feature_key", "total_granted_count >= 0", "used_count >= 0",
                                 "remaining_count >= 0", "total = used + remaining"})
    \cup Table("credit_transactions",
               {"id", "user_id", "feature_key", "reason", "action", "amount"}, {"created_at"},
               {"source_type", "source_id", "idempotency_key"})
    \cup Checks("credit_transactions", {"feature_key", "reason", "action", "reason with action",
                                        "amount > 0", "source_type", "source pair"})
    \cup {Index("credit_transactions", {"user_id", "feature_key", "created_at", "id"}),
          Unique("credit_transactions", {"idempotency_key"}),
          Unique("credit_transactions",
                 {"source_type", "source_id", "user_id", "feature_key", "action"})}

OutboxOrm ==
    Table("outbox_events", {"id", "event_id", "event_type", "occurred_at"},
          {"payload", "retry_count"}, {})
    \cup {Unique("outbox_events", {"event_id"})}

\* Base.metadata, as env.py collects it.
Orm == UsersOrm \cup AuthOrm \cup ReceiptsOrm \cup FilesOrm \cup NotificationsOrm
       \cup ScheduleOrm \cup PromotionsOrm \cup RedemptionsOrm \cup CreditsOrm \cup OutboxOrm

-----------------------------------------------------------------------------
(* What the steps do to the rows *)

Position(r) == CHOOSE n \in 1..Latest : Revisions[n] = r
Has(t, c) == \E kind \in ColumnKinds : <<t, {c}, kind>> \in schema

LegacyKinds == {"warranty_notice", "warranty_warning", "warranty_risk", "warranty_expired",
                "registration_prompt", "credit_prompt", "benefit"}
LegacyTargets == {"receipt", "receiptUpload", "none"}
Categories == {"product_management", "warranty", "benefit"}

\* What the code writes into a notification of a scheduled campaign.
Delivery(category, message_type, resource) ==
    [category |-> category, message_type |-> message_type, resource |-> resource]
DeliveryContract == [
    warranty_expiry |-> Delivery("warranty", "transactional", "receipt"),
    receipt_registration_reminder |-> Delivery("product_management", "marketing", "null"),
    receipt_inactivity_reminder |-> Delivery("product_management", "marketing", "null"),
    receipt_analysis_reminder |-> Delivery("benefit", "marketing", "null")]

\* Revision 0013: message types and titles are filled in, targets become resources.
Generalize(n) ==
    LET cleared == n.resource \in {"none", "receiptUpload"} \/ ~n.id IN
    [n EXCEPT !.message_type = IF n.kind = "benefit" THEN "marketing" ELSE "transactional",
              !.resource = IF cleared THEN "null" ELSE @,
              !.id = @ /\ ~cleared]

Specialize(n) ==
    [n EXCEPT !.message_type = "absent",
              !.resource = IF @ \in LegacyTargets THEN @ ELSE "none",
              !.id = @ /\ n.resource \in LegacyTargets]

WarrantyKinds == {"warranty", "warranty_notice", "warranty_warning", "warranty_risk",
                  "warranty_expired", "warranty_expiry"}

\* Mutant: the reminder of free analyses is not counted among the benefits.
CategorizeOldKinds(n) ==
    [n EXCEPT !.category =
        IF n.kind \in WarrantyKinds THEN "warranty"
        ELSE IF n.kind \in {"benefit", "credit_prompt", "engagement_all_user"}
             THEN "benefit"
        ELSE "product_management"]

Categorize(n) ==
    [n EXCEPT !.category =
        IF n.kind \in WarrantyKinds THEN "warranty"
        ELSE IF n.kind \in {"benefit", "credit_prompt", "receipt_analysis_reminder",
                            "engagement_all_user"}
             THEN "benefit"
        ELSE "product_management"]

CategoryEnum == {"kitchen_appliance", "laundry_cleaning", "living_climate", "it_device",
                 "other_device"}

\* The labels the code takes for a category, in lower case and without spaces as
\* it compares them; Korean words are romanized.
Aliases == [
    kitchen_appliance |-> {"jubanggajeon"},
    laundry_cleaning |-> {"setak/cheongso", "setakcheongso"},
    living_climate |-> {"living/naengnanbang", "livingnaengnanbang"},
    it_device |-> {"itgigi", "itjepum", "yeongsang/itjepum", "yeongsangitjepum"},
    other_device |-> {"gitagigi", "gitajepum", "gita"}]

\* ReceiptCategory(text).
Parsed(label) ==
    LET found == {c \in CategoryEnum : label = c \/ label \in Aliases[c]}
    IN IF found = {} THEN "unparsed" ELSE CHOOSE c \in found : TRUE

\* Values of receipts.category when it was free text: one the code can parse, one
\* that only begins with "it", another.
Labels == CategoryEnum \cup UNION {Aliases[c] : c \in CategoryEnum} \cup {"itgadgets", "toys"}

\* The CASE of the revision that introduces the enum, which has lists of its own
\* and takes whatever begins with "it".
Converted(label) ==
    CASE label \in {"kitchen_appliance", "jubanggajeon"} -> "kitchen_appliance"
      [] label \in {"laundry_cleaning", "setak/cheongso", "setakcheongso"} ->
             "laundry_cleaning"
      [] label \in {"living_climate", "living/naengnanbang", "livingnaengnanbang"} ->
             "living_climate"
      [] label \in {"it_device", "itgigi", "itjepum", "yeongsang/itjepum",
                    "yeongsangitjepum", "itgadgets"} -> "it_device"
      [] OTHER -> "other_device"

\* What f makes of a row, if there is one.
Rewrite(row, f(_)) == IF row = None THEN None ELSE f(row)

NoticeUp(n) ==
    CASE n = Position(R0013) -> Rewrite(notice, Generalize)
      [] n = Position(R0025) -> Rewrite(notice, Categorize)
      [] OTHER -> notice
NoticeDown(n) ==
    CASE n = Position(R0009) -> None
      [] n = Position(R0013) -> Rewrite(notice, Specialize)
      [] n = Position(R0025) ->
             Rewrite(notice, LAMBDA x : [x EXCEPT !.category = "absent"])
      [] OTHER -> notice

ReceiptUp(n) ==
    IF n = Position(R0023)
    THEN Rewrite(receipt, LAMBDA x : [x EXCEPT !.category = Converted(x.category)])
    ELSE receipt
ReceiptDown(n) == IF n = Position(R0005) THEN None ELSE receipt

FilesDown(n) == IF n = Position(R0006) THEN None ELSE files

\* The table of 0002 is another one; 0014 deletes every row in both directions.
DeviceUp(n) == IF n \in {Position(R0008), Position(R0014)} THEN None ELSE device
DeviceDown(n) ==
    IF n \in {Position(R0002), Position(R0012), Position(R0014)} THEN None ELSE device

ContextDown(n) ==
    CASE n = Position(R0016) -> None
      [] n = Position(R0019) -> Rewrite(context, LAMBDA x : "null")
      [] n = Position(R0024) -> Rewrite(context, LAMBDA x : IF x = "signup" THEN "null" ELSE x)
      [] OTHER -> context

\* The rows that keep a step down from being taken: metadata of files is gone,
\* old code cannot read a kind, a warranty is too long.
Refused(n) ==
    \/ n = Position(R0007) /\ files # None
    \/ n = Position(R0013) /\ notice # None /\ notice.kind \notin LegacyKinds
    \/ n = Position(R0026) /\ receipt # None /\ receipt.months > 60

\* The constraints of schema s on the rows whose contents the steps rewrite.
Legal(s, n, r, c) ==
    /\ n # None =>
        /\ Checks("user_notifications", {"message_type"}) \subseteq s =>
               n.message_type \in {"transactional", "marketing"}
        /\ Checks("user_notifications", {"resource pair"}) \subseteq s =>
               (n.resource = "null") = ~n.id
        /\ Columns("user_notifications", {"target_type"}, "required") \subseteq s =>
               n.resource # "null"
        /\ Checks("user_notifications", {"category"}) \subseteq s => n.category \in Categories
    /\ r # None =>
        /\ Checks("receipts", {"period_months BETWEEN 1 AND 60"}) \subseteq s => r.months <= 60
        /\ Checks("receipts", {"period_months BETWEEN 1 AND 120"}) \subseteq s => r.months <= 120
        /\ Checks("receipts", {"category IN receipt_category"}) \subseteq s =>
               r.category \in CategoryEnum \cup {"null"}
    /\ c # None =>
        /\ Checks("promotions", {"context IN recharge"}) \subseteq s => c \in {"null", "recharge"}
        /\ Checks("promotions", {"context IN recharge, signup"}) \subseteq s =>
               c \in {"null", "recharge", "signup"}

-----------------------------------------------------------------------------
Init ==
    /\ revision = 0
    /\ schema = {}
    /\ notice = None /\ receipt = None /\ files = None /\ device = None /\ context = None

\* The schema that the UPDATE of a step meets: what the step drops or makes
\* nullable is gone and nothing is required or checked anew, except that the step
\* down from 0024 rewrites before its DDL.
MeetsUp(n) == schema \ Dropped(schema, Revisions[n].up)

\* Mutant: the older, narrower constraints are restored before the UPDATE.
MeetsDownLate(n) == Apply(schema, Revisions[n].down)

MeetsDown(n) ==
    IF n = Position(R0024) THEN schema ELSE schema \ Dropped(schema, Revisions[n].down)

\* alembic upgrade to the next revision, alembic downgrade to the one before:
\* one transaction, which fails when a statement does.
CanUpgrade ==
    LET n == revision + 1 IN
    /\ Fits(schema, Revisions[n].up)
    /\ Legal(MeetsUp(n), notice, receipt, context)
    /\ Legal(MeetsUp(n), NoticeUp(n), ReceiptUp(n), context)
    /\ Legal(Apply(schema, Revisions[n].up), NoticeUp(n), ReceiptUp(n), context)

Upgrade ==
    /\ revision < Latest
    /\ CanUpgrade
    /\ LET n == revision + 1 IN
       /\ revision' = n
       /\ schema' = Apply(schema, Revisions[n].up)
       /\ notice' = NoticeUp(n)
       /\ receipt' = ReceiptUp(n)
       /\ device' = DeviceUp(n)
       /\ UNCHANGED <<files, context>>

CanDowngrade ==
    LET n == revision IN
    /\ Fits(schema, Revisions[n].down)
    /\ Legal(MeetsDown(n), notice, receipt, context)
    /\ Legal(MeetsDown(n), NoticeDown(n), ReceiptDown(n), ContextDown(n))
    /\ Legal(Apply(schema, Revisions[n].down), NoticeDown(n), ReceiptDown(n), ContextDown(n))

Downgrade ==
    /\ revision > 0
    /\ ~Refused(revision)
    /\ CanDowngrade
    /\ LET n == revision IN
       /\ revision' = n - 1
       /\ schema' = Apply(schema, Revisions[n].down)
       /\ notice' = NoticeDown(n)
       /\ receipt' = ReceiptDown(n)
       /\ files' = FilesDown(n)
       /\ device' = DeviceDown(n)
       /\ context' = ContextDown(n)

-----------------------------------------------------------------------------
(* The program of the revision in force writes a row.  The steps rewrite   *)
(* the tables one by one, so one row at a time is enough.                  *)

Empty == \A x \in {notice, receipt, files, device, context} : x = None

\* Code before 0013 knows seven kinds and three targets.
InsertLegacyNotice ==
    /\ Has("user_notifications", "target_type")
    /\ \E kind \in LegacyKinds, target \in LegacyTargets, id \in BOOLEAN :
           notice' = [kind |-> kind, message_type |-> "absent", resource |-> target,
                      id |-> id, category |-> "absent"]
    /\ UNCHANGED <<receipt, files, device, context>>

\* A scheduled notification, delivery_contract_for.
InsertDueNotice ==
    /\ Has("notification_schedule_occurrences", "campaign_key")
    /\ \E kind \in DOMAIN DeliveryContract :
           LET delivery == DeliveryContract[kind] IN
           notice' = [kind |-> kind,
                      message_type |-> delivery.message_type,
                      resource |-> delivery.resource,
                      id |-> delivery.resource # "null",
                      category |-> IF Has("user_notifications", "category")
                                   THEN delivery.category ELSE "absent"]
    /\ UNCHANGED <<receipt, files, device, context>>

InsertReceipt ==
    /\ Has("receipts", "category")
    /\ \E months \in {12, 60, 61, 120}, label \in Labels :
           /\ receipt' = [months |-> months, category |-> label, meant |-> Parsed(label)]
           /\ Legal(schema, notice, receipt', context)
    /\ UNCHANGED <<notice, files, device, context>>

InsertFile ==
    /\ Has("files", "id")
    /\ files' = "file"
    /\ UNCHANGED <<notice, receipt, device, context>>

InsertDevice ==
    /\ \E column \in {"fcm_token", "fid", "token"} :
           Has("user_push_tokens", column) /\ device' = column
    /\ UNCHANGED <<notice, receipt, files, context>>

InsertPromotion ==
    /\ Has("promotions", "id")
    /\ \E c \in {"null", "recharge", "signup"} :
           /\ context' = c
           /\ c # "null" => Has("promotions", "context")
           /\ Legal(schema, notice, receipt, context')
    /\ UNCHANGED <<notice, receipt, files, device>>

Insert ==
    /\ Empty
    /\ \/ InsertLegacyNotice \/ InsertDueNotice \/ InsertReceipt
       \/ InsertFile \/ InsertDevice \/ InsertPromotion
    /\ UNCHANGED <<revision, schema>>

\* A user or an operator removes the row that stands in the way.
Remove ==
    /\ ~Empty
    /\ notice' = None /\ receipt' = None /\ files' = None /\ device' = None /\ context' = None
    /\ UNCHANGED <<revision, schema>>

Next == Upgrade \/ Downgrade \/ Insert \/ Remove

Spec == Init /\ [][Next]_vars

-----------------------------------------------------------------------------
(* Properties *)

\* The schema that the upgrades alone give at each revision.
Built[n \in 0..Latest] ==
    IF n = 0 THEN {} ELSE Apply(Built[n - 1], Revisions[n].up)

\* NOT NULL columns of s, whether they have a server default or not.
Weakened(s) ==
    {IF p[3] = "required" THEN <<p[1], p[2], "default">> ELSE p : p \in s}

\* Whatever upgrades and downgrades led to a revision, its code finds the
\* columns, keys, references and checks it was written for; a column may only
\* have gained a default (the downgrade functions of alembic/versions; 0007
\* restores its columns with server defaults).
SchemaServesRevision ==
    /\ Weakened(schema) = Weakened(Built[revision])
    /\ {p \in schema : p[3] = "required"} \subseteq Built[revision]

\* At the latest revision the tables are exactly the ones the mapped classes
\* describe, after any detour (alembic/env.py:24, the orm.py of each module).
LatestMatchesOrm == revision = Latest => schema = Orm

\* No revision gets stuck on rows its program could have written: it applies,
\* or it refuses with an error that names the rows to remove.  The UPDATEs of
\* 0013, 0023, 0024 and 0025 leave rows that pass the constraints and come
\* before those that the old rows would break.
RevisionsApply ==
    /\ revision < Latest => CanUpgrade
    /\ revision > 0 /\ ~Refused(revision) => CanDowngrade

\* What the backfills write is what the code means: a scheduled notification
\* has the category and the message type of its kind (domain/due_notification
\* .py:65), so none that needs consent turns transactional on the way down
\* and up again; a category keeps the meaning the code's aliases give it; no
\* installation id is ever taken for a registration token.
BackfillsAgreeWithCode ==
    /\ notice # None /\ notice.kind \in DOMAIN DeliveryContract =>
           /\ notice.message_type \in {"absent", DeliveryContract[notice.kind].message_type}
           /\ notice.category \in {"absent", DeliveryContract[notice.kind].category}
    /\ (receipt # None /\ Checks("receipts", {"category IN receipt_category"}) \subseteq schema
            /\ receipt.meant # "unparsed") => receipt.category = receipt.meant
    /\ Has("user_push_tokens", "token") => device \in {None, "token"}

=============================================================================
