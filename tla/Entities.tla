------------------------------ MODULE Entities -------------------------------
(***************************************************************************)
(* The entities the workers read and write the tables through: the columns *)
(* an entity maps, those it takes to be unique, and its relations that own *)
(* a column, as pairs of the column and the table it refers to.            *)
(***************************************************************************)

Entity(table, columns, unique, keys) ==
    [table |-> table, columns |-> columns, unique |-> unique, keys |-> keys]

\* id is generated, the dates are set by the database.
BaseEntity == {"id", "createdAt", "updatedAt"}

Admin ==
    Entity("admins", {"userName", "password", "fcmToken", "lastLoginDate", "ipAddress"} \union
        BaseEntity, {"userName"}, {})

Blog ==
    Entity("blogs", {"blogCategoryId", "name", "slug", "title", "image", "typePress",
        "screenCustomer", "screenShoemaker", "linkNavigate", "order", "status", "isPromotion",
        "banner", "runBanner"} \union BaseEntity, {}, {<<"blogCategoryId", "blog_category">>})

BlogCategory ==
    Entity("blog_category", {"name", "slug", "description", "order", "status"} \union BaseEntity,
        {}, {})

BonusPoint ==
    Entity("bonus_points", {"id", "customerId", "shoemakerId", "points"}, {}, {<<"customerId",
        "customers">>, <<"shoemakerId", "shoemakers">>})

BonusPointLog ==
    Entity("bonus_point_logs", {"bonusPointId", "previousPoints", "newPoints", "pointsChanged",
        "description"} \union BaseEntity, {}, {<<"bonusPointId", "bonus_points">>})

CustomerVoucher ==
    Entity("customer_vouchers", {"customerId", "voucherId", "timeUse"} \union BaseEntity, {},
        {<<"customerId", "customers">>, <<"voucherId", "vouchers">>})

Customer ==
    Entity("customers", {"phone", "password", "fullName", "otp", "fcmToken", "email",
        "referralCode", "registrationDate", "lastLoginDate", "isLogin", "isVerified", "bankName",
        "bankAccountNumber", "bankAccountName", "avatar", "otpRequestCount", "lastOtpRequestDate",
        "newUser", "address", "platform", "deviceId", "deletedAt"} \union BaseEntity, {"phone",
        "email"}, {<<"deviceId", "devices">>})

Device ==
    Entity("devices", {"deviceId", "deviceId2", "manufacturer", "name", "memory", "model",
        "systemName", "deviceType"} \union BaseEntity, {}, {})

Notification ==
    Entity("notifications", {"shoemakerId", "customerId", "systemNotificationId", "title",
        "content", "data", "isRead", "type"} \union BaseEntity, {}, {<<"shoemakerId",
        "shoemakers">>, <<"customerId", "customers">>, <<"systemNotificationId",
        "system_notifications">>})

Option ==
    Entity("options", {"key", "value"} \union BaseEntity, {}, {})

PointToProduct ==
    Entity("point_to_product", {"name", "slug", "description", "type", "code", "point", "rate"}
        \union BaseEntity, {}, {})

RatingSummary ==
    Entity("rating_summaries", {"shoemakerId", "average", "count"} \union BaseEntity, {},
        {<<"shoemakerId", "shoemakers">>})

SearchHistory ==
    Entity("search_histories", {"customerId", "name", "address", "latitude", "longitude"} \union
        BaseEntity, {}, {<<"customerId", "customers">>})

Service ==
    Entity("services", {"name", "price", "discountPrice", "discount", "icon", "shareType",
        "share", "experienceOnce"} \union BaseEntity, {}, {})

Shoemaker ==
    Entity("shoemakers", {"phone", "status", "serviceShoe", "serviceBike", "serviceFood",
        "password", "otp", "step", "fcmToken", "referralCode", "registrationDate",
        "lastLoginDate", "isOnline", "isTrip", "isSchedule", "isVerified", "latitude",
        "longitude", "latLongToCell", "fullName", "identityCard", "email", "accountNumber",
        "bankName", "accountName", "avatar", "dateOfBirth", "placeOfOrigin", "placeOfResidence",
        "maritalStatus", "workRegistrationArea", "frontOfCardImage", "backOfCardImage",
        "deletedAt", "isOn", "otpRequestCount", "lastOtpRequestDate", "platform", "deviceId"}
        \union BaseEntity, {"phone", "email"}, {<<"deviceId", "devices">>})

SystemNotification ==
    Entity("system_notifications", {"title", "content", "isSent", "sentTime", "scheduleTime",
        "receiver"} \union BaseEntity, {}, {})

TransactionLog ==
    Entity("transaction_logs", {"status", "vnPayData", "ipIpn", "date", "transactionId",
        "message"} \union BaseEntity, {}, {})

Transaction ==
    Entity("transactions", {"walletId", "tripId", "orderId", "amount", "description",
        "transactionDate", "transactionType", "transactionSource", "status", "vnPayData",
        "ipRequest", "ipIpn", "isManual", "evidence"} \union BaseEntity, {"orderId"},
        {<<"walletId", "wallets">>, <<"tripId", "trips">>})

TripCancellation ==
    Entity("trip_cancellations", {"tripId", "customerId", "shoemakerId", "reason", "date"} \union
        BaseEntity, {}, {<<"tripId", "trips">>, <<"customerId", "customers">>, <<"shoemakerId",
        "shoemakers">>})

TripLog ==
    Entity("trip_logs", {"tripId", "type", "data"} \union BaseEntity, {}, {<<"tripId", "trips">>})

TripRating ==
    Entity("trip_ratings", {"tripId", "customerId", "shoemakerId", "rating", "comment"} \union
        BaseEntity, {"tripId, customerId"}, {<<"tripId", "trips">>, <<"customerId", "customers">>,
        <<"shoemakerId", "shoemakers">>})

TripService ==
    Entity("trip_services", {"tripId", "serviceId", "price", "discountPrice", "discount",
        "quantity", "name", "shareType", "share"} \union BaseEntity, {}, {<<"tripId", "trips">>,
        <<"serviceId", "services">>})

Trip ==
    Entity("trips", {"customerId", "shoemakerId", "orderId", "status", "date", "latitude",
        "longitude", "address", "totalPrice", "fee", "income", "images", "receiveImages",
        "completeImages", "paymentMethod", "paymentStatus", "addressNote", "jobId", "vnPayData",
        "refundData", "ipRequest", "ipIpn", "isAutoCancel", "scheduleTime"} \union BaseEntity,
        {"orderId"}, {<<"customerId", "customers">>, <<"shoemakerId", "shoemakers">>})

Voucher ==
    Entity("vouchers", {"name", "description", "code", "paymentMethod", "discount",
        "typeDiscount", "discountToUp", "minimumOrder", "totalUse", "quantity", "icon",
        "startTime", "endTime", "type", "isGlobal"} \union BaseEntity, {"code"}, {})

WalletLog ==
    Entity("wallet_logs", {"walletId", "previousBalance", "currentBalance", "amount",
        "description", "transactionDate"} \union BaseEntity, {}, {<<"walletId", "wallets">>})

Wallet ==
    Entity("wallets", {"customerId", "shoemakerId", "balance"} \union BaseEntity, {},
        {<<"customerId", "customers">>, <<"shoemakerId", "shoemakers">>})

-----------------------------------------------------------------------------
\* The entities of the data source.
AllEntities ==
    {Admin, Blog, BlogCategory, BonusPoint, BonusPointLog, CustomerVoucher, Customer, Device,
        Notification, Option, PointToProduct, RatingSummary, SearchHistory, Service, Shoemaker,
        SystemNotification, TransactionLog, Transaction, TripCancellation, TripLog, TripRating,
        TripService, Trip, Voucher, WalletLog, Wallet}

=============================================================================
