------------------------------- MODULE Schema --------------------------------
(***************************************************************************)
(* The migrations of the repository in the order of their time stamps,     *)
(* each under the name of its class: the statements of up and of down.     *)
(***************************************************************************)
EXTENDS Ddl, Entities

\* The dates most tables end with; both have a default.
Stamps == {"createdAt", "updatedAt"}

CreateAdminsTable ==
    [up |-> <<
         Create("admins", {"id", "userName", "password"}, {"lastLoginDate", "ipAddress"} \union
             Stamps, {"userName"})>>,
     down |-> <<DropTable("admins")>>]

CreateServicesTable ==
    [up |-> <<
         Create("services", {"id", "name", "price"}, {"discountPrice", "discount", "icon"} \union
             Stamps, {})>>,
     down |-> <<DropTable("services")>>]

CreateCustomersTable ==
    [up |-> <<
         Create("customers", {"id", "phone"}, {"password", "fullName", "otp", "fcmToken", "email",
             "referralCode", "registrationDate", "lastLoginDate", "isLogin", "isVerified",
             "bankName", "bankAccountNumber", "bankAccountName", "avatar", "deletedAt"} \union
             Stamps, {"phone", "email"}),
         CreateIndex("customers", "referralCode")>>,
     down |-> <<DropIndex("customers", "referralCode"), DropTable("customers")>>]

CreateShoemakersTable ==
    [up |-> <<
         Create("shoemakers", {"id", "phone"}, {"status", "password", "otp", "step", "fcmToken",
             "referralCode", "registrationDate", "lastLoginDate", "isOnline", "isOn", "isTrip",
             "isVerified", "latitude", "longitude", "latLongToCell", "fullName", "identityCard",
             "email", "bankName", "accountNumber", "accountName", "avatar", "dateOfBirth",
             "placeOfOrigin", "placeOfResidence", "maritalStatus", "workRegistrationArea",
             "frontOfCardImage", "backOfCardImage", "deletedAt"} \union Stamps, {"phone",
             "email"}),
         CreateIndex("shoemakers", "referralCode"),
         CreateIndex("shoemakers", "latLongToCell")>>,
     down |-> <<
         DropIndex("shoemakers", "referralCode"),
         DropIndex("shoemakers", "latLongToCell"),
         DropTable("shoemakers")>>]

CreateWalletsTable ==
    [up |-> <<
         Create("wallets", {"id"}, {"customerId", "shoemakerId", "balance"} \union Stamps, {}),
         CreateKey("wallets", "customerId", "customers", "CASCADE"),
         CreateKey("wallets", "shoemakerId", "shoemakers", "CASCADE")>>,
     down |-> <<
         DropKey("wallets", "customerId"),
         DropKey("wallets", "shoemakerId"),
         DropTable("wallets")>>]

CreateWalletLogsTable ==
    [up |-> <<
         Create("wallet_logs", {"id", "walletId"}, {"previousBalance", "currentBalance", "amount",
             "description", "transactionDate"} \union Stamps, {}),
         CreateKey("wallet_logs", "walletId", "wallets", "CASCADE")>>,
     down |-> <<DropKey("wallet_logs", "walletId"), DropTable("wallet_logs")>>]

CreateTripsTable ==
    [up |-> <<
         Create("trips", {"id", "orderId"}, {"customerId", "shoemakerId", "status", "date",
             "latitude", "longitude", "address", "totalPrice", "images", "receiveImages",
             "completeImages", "paymentMethod", "paymentStatus", "addressNote", "jobId",
             "vnPayData", "ipRequest", "ipIpn"} \union Stamps, {"orderId"}),
         CreateIndex("trips", "date"),
         CreateKey("trips", "customerId", "customers", "SET NULL"),
         CreateKey("trips", "shoemakerId", "shoemakers", "SET NULL")>>,
     down |-> <<
         DropKey("trips", "customerId"),
         DropKey("trips", "shoemakerId"),
         DropIndex("trips", "date"),
         DropTable("trips")>>]

CreateTripServicesTable ==
    [up |-> <<
         Create("trip_services", {"id", "tripId", "price", "quantity", "name"}, {"serviceId",
             "discountPrice", "discount"} \union Stamps, {}),
         CreateKey("trip_services", "tripId", "trips", "CASCADE"),
         CreateKey("trip_services", "serviceId", "services", "SET NULL")>>,
     down |-> <<
         DropKey("trip_services", "serviceId"),
         DropKey("trip_services", "tripId"),
         DropTable("trip_services")>>]

CreateTripRatingsTable ==
    [up |-> <<
         Create("trip_ratings", {"id", "tripId"}, {"customerId", "shoemakerId", "rating",
             "comment"} \union Stamps, {}),
         CreateKey("trip_ratings", "tripId", "trips", "CASCADE"),
         CreateKey("trip_ratings", "customerId", "customers", "SET NULL"),
         CreateKey("trip_ratings", "shoemakerId", "shoemakers", "SET NULL"),
         CreateUnique("trip_ratings", {"tripId", "customerId"}, "tripId, customerId")>>,
     down |-> <<
         DropKey("trip_ratings", "customerId"),
         DropKey("trip_ratings", "tripId"),
         DropKey("trip_ratings", "shoemakerId"),
         DropUnique("trip_ratings", "tripId, customerId"),
         DropTable("trip_ratings")>>]

CreateTripCancellationsTable ==
    [up |-> <<
         Create("trip_cancellations", {"id", "tripId"}, {"customerId", "shoemakerId", "reason"}
             \union Stamps, {}),
         CreateKey("trip_cancellations", "tripId", "trips", "CASCADE"),
         CreateKey("trip_cancellations", "customerId", "customers", "SET NULL"),
         CreateKey("trip_cancellations", "shoemakerId", "shoemakers", "SET NULL")>>,
     down |-> <<
         DropKey("trip_cancellations", "customerId"),
         DropKey("trip_cancellations", "tripId"),
         DropKey("trip_cancellations", "shoemakerId"),
         DropTable("trip_cancellations")>>]

CreateRatingSummariesTable ==
    [up |-> <<
         Create("rating_summaries", {"id", "shoemakerId", "average", "count"}, Stamps, {}),
         CreateKey("rating_summaries", "shoemakerId", "shoemakers", "CASCADE")>>,
     down |-> <<
         DropKey("rating_summaries", "shoemakerId"),
         DropTable("rating_summaries")>>]

CreateTransactionsTable ==
    [up |-> <<
         Create("transactions", {"id", "orderId", "amount"}, {"walletId", "tripId", "description",
             "transactionDate", "transactionType", "transactionSource", "status", "vnPayData",
             "ipRequest", "ipIpn"} \union Stamps, {"orderId"}),
         CreateIndex("transactions", "transactionDate"),
         CreateKey("transactions", "tripId", "trips", "SET NULL"),
         CreateKey("transactions", "walletId", "wallets", "SET NULL")>>,
     down |-> <<
         DropKey("transactions", "walletId"),
         DropKey("transactions", "tripId"),
         DropIndex("transactions", "transactionDate"),
         DropTable("transactions")>>]

CreateTransactionLogsTable ==
    [up |-> <<
         Create("transaction_logs", {"id"}, {"status", "vnPayData", "ipIpn", "date",
             "transactionId", "message"} \union Stamps, {}),
         CreateIndex("transaction_logs", "date")>>,
     down |-> <<DropIndex("transaction_logs", "date"), DropTable("transaction_logs")>>]

CreateSearchHistoriesTable ==
    [up |-> <<
         Create("search_histories", {"id", "customerId"}, {"name", "address", "latitude",
             "longitude"} \union Stamps, {}),
         CreateKey("search_histories", "customerId", "customers", "CASCADE")>>,
     down |-> <<
         DropKey("search_histories", "customerId"),
         DropTable("search_histories")>>]

CreateSystemNotificationsTable ==
    [up |-> <<
         Create("system_notifications", {"id", "title", "content", "receiver"}, {"isSent",
             "sentTime", "scheduleTime"} \union Stamps, {})>>,
     down |-> <<DropTable("system_notifications")>>]

CreateNotificationsTable ==
    [up |-> <<
         Create("notifications", {"id", "title", "content"}, {"shoemakerId", "customerId",
             "systemNotificationId", "data", "isRead", "type"} \union Stamps, {}),
         CreateKey("notifications", "customerId", "customers", "CASCADE"),
         CreateKey("notifications", "shoemakerId", "shoemakers", "CASCADE"),
         CreateKey("notifications", "systemNotificationId", "system_notifications", "SET NULL")>>,
     down |-> <<
         DropKey("notifications", "customerId"),
         DropKey("notifications", "systemNotificationId"),
         DropKey("notifications", "shoemakerId"),
         DropTable("notifications")>>]

CreateFeeColumnToTrips ==
    [up |-> <<AddColumn("trips", "fee")>>,
     down |-> <<DropColumn("trips", "fee")>>]

CreateRefundDataColumnToTrips ==
    [up |-> <<
         AddColumn("trips", "refundData"),
         ChangeColumn("trips", "paymentStatus")>>,
     down |-> <<
         DropColumn("trips", "refundData"),
         RenameColumn("trips", "paymentStatus", "type")>>]

CreateIsManualColumnToTransactions ==
    [up |-> <<AddColumn("transactions", "isManual")>>,
     down |-> <<DropColumn("transactions", "isManual")>>]

CreateIsAutoCancelToTrips ==
    [up |-> <<AddColumn("trips", "isAutoCancel")>>,
     down |-> <<DropColumn("trips", "isAutoCancel")>>]

CreateScheduleTimeToTrips ==
    [up |-> <<AddColumn("trips", "scheduleTime")>>,
     down |-> <<DropColumn("trips", "scheduleTime")>>]

CreateTripLogsTable ==
    [up |-> <<
         Create("trip_logs", {"id"}, {"tripId", "type", "data"} \union Stamps, {}),
         CreateKey("trip_logs", "tripId", "trips", "CASCADE")>>,
     down |-> <<DropKey("trip_logs", "tripId"), DropTable("trip_logs")>>]

CreateFeeColumnToServices ==
    [up |-> <<AddColumn("services", "shareType"), AddColumn("services", "share")>>,
     down |-> <<DropColumn("services", "shareType"), DropColumn("services", "share")>>]

CreateFeeColumnToTripServices ==
    [up |-> <<
         AddColumn("trip_services", "shareType"),
         AddColumn("trip_services", "share")>>,
     down |-> <<
         DropColumn("trip_services", "shareType"),
         DropColumn("trip_services", "share")>>]

CreateIncomeToTrips ==
    [up |-> <<AddColumn("trips", "income")>>,
     down |-> <<DropColumn("trips", "income")>>]

CreateDateToTripCancellations ==
    [up |-> <<
         AddColumn("trip_cancellations", "date"),
         CreateIndex("trip_cancellations", "date")>>,
     down |-> <<
         DropIndex("trip_cancellations", "date"),
         DropColumn("trip_cancellations", "date")>>]

UpdateDateToTripCancellations ==
    [up |-> <<UpdateRows("trip_cancellations", TripCancellation.columns)>>,
     down |-> <<>>]

CreateEvidenceToTransactions ==
    [up |-> <<AddColumn("transactions", "evidence")>>,
     down |-> <<DropColumn("transactions", "evidence")>>]

CreateLastOtpRequestDateToShoemakers ==
    [up |-> <<
         AddColumn("shoemakers", "lastOtpRequestDate"),
         AddColumn("shoemakers", "otpRequestCount")>>,
     down |-> <<
         DropColumn("shoemakers", "lastOtpRequestDate"),
         DropColumn("shoemakers", "otpRequestCount")>>]

CreateLastOtpRequestDateToCustomers ==
    [up |-> <<
         AddColumn("customers", "lastOtpRequestDate"),
         AddColumn("customers", "otpRequestCount")>>,
     down |-> <<
         DropColumn("customers", "lastOtpRequestDate"),
         DropColumn("customers", "otpRequestCount")>>]

CreateOptionsTable ==
    [up |-> <<Create("options", {"id", "key"}, {"value"} \union Stamps, {})>>,
     down |-> <<DropTable("options")>>]

CreateNewUserColumnToCustomers ==
    [up |-> <<AddColumn("customers", "newUser")>>,
     down |-> <<DropColumn("customers", "newUser")>>]

CreateExperienceOnceColumnToService ==
    [up |-> <<AddColumn("services", "experienceOnce")>>,
     down |-> <<DropColumn("services", "experienceOnce")>>]

CreateVoucherTable ==
    [up |-> <<
         CreateIfNotExists("vouchers", {"id", "name", "description", "code", "paymentMethod",
             "discount", "type"}, {"typeDiscount", "discountToUp", "minimumOrder", "totalUse",
             "quantity", "icon", "startTime", "endTime", "isGlobal"} \union Stamps, {"code"}),
         CreateIndex("vouchers", "type"),
         CreateIndex("vouchers", "code")>>,
     down |-> <<
         DropIndex("vouchers", "type"),
         DropIndex("vouchers", "code"),
         DropTable("vouchers")>>]

CreateCustomerVoucherTable ==
    [up |-> <<
         Create("customer_vouchers", {"id", "voucherId"}, {"customerId", "timeUse"} \union Stamps,
             {}),
         CreateKey("customer_vouchers", "customerId", "customers", "SET NULL"),
         CreateKey("customer_vouchers", "voucherId", "vouchers", "CASCADE")>>,
     down |-> <<
         DropKey("customer_vouchers", "FK_customerId"),
         DropKey("customer_vouchers", "FK_voucherId"),
         DropTable("customer_vouchers")>>]

CreateBonusPointsTable ==
    [up |-> <<
         CreateIfNotExists("bonus_points", {"id", "points"}, {"customerId", "shoemakerId"},
             {"id"}),
         CreateKey("bonus_points", "customerId", "customers", "CASCADE"),
         CreateKey("bonus_points", "shoemakerId", "shoemakers", "CASCADE")>>,
     down |-> <<
         DropKey("bonus_points", "customerId"),
         DropKey("bonus_points", "shoemakerId"),
         DropTable("bonus_points")>>]

CreateBonusPointLogsTable ==
    [up |-> <<
         CreateIfNotExists("bonus_point_logs", {"bonusPointId", "previousPoints", "newPoints",
             "pointsChanged"}, {"id", "description"} \union Stamps, {}),
         CreateKey("bonus_point_logs", "bonusPointId", "bonus_points", "CASCADE")>>,
     down |-> <<
         DropKey("bonus_point_logs", "bonusPointId"),
         DropTable("bonus_point_logs")>>]

CreateAddressColumnToCustomers ==
    [up |-> <<AddColumn("customers", "address")>>,
     down |-> <<DropColumn("customers", "address")>>]

CreatePointToProductTable ==
    [up |-> <<
         CreateIfNotExists("point_to_product", {"id", "name", "slug", "type", "point", "rate"},
             {"description", "code"} \union Stamps, {"id"})>>,
     down |-> <<DropTable("point_to_product")>>]

CreateBlogCategoryTable ==
    [up |-> <<
         Create("blog_category", {"id"}, {"name", "slug", "description", "status", "order"} \union
             Stamps, {})>>,
     down |-> <<DropTable("blog_category")>>]

CreateBlogTable ==
    [up |-> <<
         Create("blogs", {"id"}, {"blogCategoryId", "title", "slug", "name", "image", "typePress",
             "screenCustomer", "screenShoemaker", "linkNavigate", "order", "isPromotion",
             "status"} \union Stamps, {}),
         CreateKey("blogs", "blogCategoryId", "blog_category", "CASCADE")>>,
     down |-> <<DropKey("blogs", "FK_blogCategoryId"), DropTable("blogs")>>]

CreateFcmTokenColumnToAdmins ==
    [up |-> <<AddColumn("admins", "fcmToken")>>,
     down |-> <<DropColumn("admins", "address")>>]

CreateServiceToShoemaker ==
    [up |-> <<
         AddColumn("shoemakers", "serviceShoe"),
         AddColumn("shoemakers", "serviceBike"),
         AddColumn("shoemakers", "serviceFood"),
         CreateIndex("shoemakers", "serviceShoe"),
         CreateIndex("shoemakers", "serviceBike"),
         CreateIndex("shoemakers", "serviceFood")>>,
     down |-> <<
         DropIndex("shoemakers", "serviceShoe"),
         DropIndex("shoemakers", "serviceFood"),
         DropIndex("shoemakers", "serviceBike"),
         DropColumn("shoemakers", "serviceShoe"),
         DropColumn("shoemakers", "serviceFood"),
         DropColumn("shoemakers", "serviceBike")>>]

CreatePlatformColumnToShoemakerCustomer ==
    [up |-> <<
         AddColumn("shoemakers", "platform"),
         AddColumn("customers", "platform")>>,
     down |-> <<
         DropColumn("shoemakers", "platform"),
         DropColumn("customers", "platform")>>]

CreateIsScheduleColumnToShoemaker ==
    [up |-> <<AddColumn("shoemakers", "isSchedule")>>,
     down |-> <<DropColumn("shoemakers", "isSchedule")>>]

CreateDeviceTable ==
    [up |-> <<
         CreateIfNotExists("devices", {"id", "deviceId", "deviceId2", "manufacturer", "name",
             "memory", "model", "systemName", "deviceType"}, Stamps, {})>>,
     down |-> <<DropTable("devices")>>]

CreateDeviceIdColumnToShoemakerCustomer ==
    [up |-> <<
         AddColumn("shoemakers", "deviceId"),
         AddColumn("customers", "deviceId"),
         CreateKey("shoemakers", "deviceId", "devices", "CASCADE"),
         CreateKey("customers", "deviceId", "devices", "CASCADE")>>,
     down |-> <<
         DropColumn("shoemakers", "deviceId"),
         DropColumn("customers", "deviceId")>>]

CreateBannerColumnToBlog ==
    [up |-> <<AddColumn("blogs", "banner"), AddColumn("blogs", "runBanner")>>,
     down |-> <<DropColumn("blogs", "banner"), DropColumn("blogs", "runBanner")>>]

-----------------------------------------------------------------------------
\* What the data source finds in its directory of migrations.
AllMigrations ==
    <<CreateAdminsTable, CreateServicesTable, CreateCustomersTable, CreateShoemakersTable,
        CreateWalletsTable, CreateWalletLogsTable, CreateTripsTable, CreateTripServicesTable,
        CreateTripRatingsTable, CreateTripCancellationsTable, CreateRatingSummariesTable,
        CreateTransactionsTable, CreateTransactionLogsTable, CreateSearchHistoriesTable,
        CreateSystemNotificationsTable, CreateNotificationsTable, CreateFeeColumnToTrips,
        CreateRefundDataColumnToTrips, CreateIsManualColumnToTransactions,
        CreateIsAutoCancelToTrips, CreateScheduleTimeToTrips, CreateTripLogsTable,
        CreateFeeColumnToServices, CreateFeeColumnToTripServices, CreateIncomeToTrips,
        CreateDateToTripCancellations, UpdateDateToTripCancellations,
        CreateEvidenceToTransactions, CreateLastOtpRequestDateToShoemakers,
        CreateLastOtpRequestDateToCustomers, CreateOptionsTable, CreateNewUserColumnToCustomers,
        CreateExperienceOnceColumnToService, CreateVoucherTable, CreateCustomerVoucherTable,
        CreateBonusPointsTable, CreateBonusPointLogsTable, CreateAddressColumnToCustomers,
        CreatePointToProductTable, CreateBlogCategoryTable, CreateBlogTable,
        CreateFcmTokenColumnToAdmins, CreateServiceToShoemaker,
        CreatePlatformColumnToShoemakerCustomer, CreateIsScheduleColumnToShoemaker,
        CreateDeviceTable, CreateDeviceIdColumnToShoemakerCustomer, CreateBannerColumnToBlog>>

=============================================================================
