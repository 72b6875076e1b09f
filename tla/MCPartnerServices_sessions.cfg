SPECIFICATION Spec
CONSTANTS
  Orders = {o1}
  Clerks = {c1,c2,c3}
  Posters = {p1,p2}
  MaxReady = 3
INVARIANTS TypeOK AnswersStand AnnouncedOnceOrLost TakenIsDelivered
PROPERTY RestaurantPromise LivraisonPromise
SYMMETRY Symmetry
