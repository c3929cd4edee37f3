SPECIFICATION MCSpec
CONSTANTS
 ann=ann ben=ben NoWallet=NoWallet NoEligibility=NoEligibility eth=eth usd=usd
 Wallets<-MCWallets Routes<-MCRoutes Listed<-MCWallets MaxTxs=2 MaxJolts=1 MaxDecrees=2
 Grants={3,4} Stages=4 MaxGrants=2
 Buyers<-MCBuyers SaleCap=5 WalletCap=6 MinPurchase=2 Amounts={1,2} MaxSteps=1
INVARIANTS
    PagesTellTheTruth
PROPERTIES
    OffersAreTaken
    ConfirmedIsReported
CHECK_DEADLOCK FALSE
